---- MODULE Spec2Model ----
(***************************************************************************)
(* Aquarium game: entity lifecycle (egg -> fish -> sale), the shop's coin  *)
(* bookkeeping, the per-frame loop and the mode-toggle / resize rebuild.   *)
(*                                                                         *)
(* Units.  Lengths are integers in micro world units (1.0 = 1000000), time *)
(* is in centiseconds (1 s = 100), speeds in micro units per centisecond,  *)
(* scale factors and eased fractions in permille.  Math.random() and the   *)
(* sin()/cos() samples of the motion code are inputs drawn from small sets.*)
(***************************************************************************)
EXTENDS Integers, Sequences, FiniteSets, TLC

VARIABLES
    mode,           \* "prototype" | "full"            (main: let mode)
    worldW,         \* world width                      (main: let worldW)
    t,              \* clock.elapsedTime
    frames,         \* number of loop() frames run so far
    rebuilds,       \* number of mode toggles and resizes so far
    coins,          \* gameState.coins
    shopOpen,       \* shopUI.open
    shopTab,        \* shopUI.tab
    eggs,           \* main: const eggs = []
    decors,         \* main: const decors = []
    hatchFish,      \* main: const hatchFish = []
    fishIdCounter,  \* main: let fishIdCounter
    sellList,       \* shopData.sell
    lastSellSig,    \* main: let lastSellSig
    cards,          \* sell cards currently in the shop grid
    eggSerial,      \* history: number of eggs purchased so far
    fishEver,       \* history: number of fish records ever created
    eggLog,         \* history: per purchased egg, hatch-callback calls and flag
    fishLog,        \* history: per fish id created, coin credits, sold flag
                    \* and the time of the last call of its obj.update
    school,         \* SchoolingFish._schools entry shared by the shoal
    shoal,          \* SchoolingFish instances constructed with one schoolId
    feedOn,         \* feed._on
    flakes,         \* feed._flakes
    flakeId,        \* feed._flakeId
    flakeLog,       \* history: per flake id that left the list, why and how
    turnLog,        \* history: per fish id, its changes of swim direction
    dragState,      \* main: let dragState: pointerId and decor (its index in
                    \* decors); NoDrag for null
    growth,         \* a sample of the growth animation: age, growDur, scale
    buyLog          \* history: "buy" events emitted, clicks answered "nope",
                    \* and the cost of the last click on a buy card

vars == << mode, worldW, t, frames, rebuilds, coins, shopOpen, shopTab, eggs,
           decors, hatchFish, fishIdCounter, sellList, lastSellSig, cards,
           eggSerial, fishEver, eggLog, fishLog, school, shoal, feedOn, flakes,
           flakeId, flakeLog, turnLog, dragState, growth, buyLog >>
schoolVars == << school, shoal >>
feedVars == << feedOn, flakes, flakeId, flakeLog, turnLog >>

(***************************************************************************)
(* Bounds of the model                                                     *)
(***************************************************************************)
MaxFrames == 5
MaxEggs == 2
MaxDecors == 1
MaxRebuilds == 1
\* fixed-step runs: the number of steps and the step in centiseconds
MaxSteps == 200
StepCs == 10
\* the shoal: its largest size and its frame budget
MaxShoal == 3
MaxShoalFrames == 3
\* feeding: the frame budget and the number of flake clusters dropped
MaxFeedFrames == 9
MaxDrops == 1
\* growth samples: ages run to GrowSamples twentieths of the duration
GrowSamples == 30
\* refused clicks on buy cards that are counted
MaxNopes == 2
\* lengths saturate at a thousand world units, far outside every tank
Far == 1000000000

(***************************************************************************)
(* Arithmetic helpers                                                      *)
(***************************************************************************)
Min(a, b) == IF a <= b THEN a ELSE b
Max(a, b) == IF a >= b THEN a ELSE b
Abs(a) == IF a < 0 THEN -a ELSE a
\* THREE.MathUtils.clamp(value, min, max) = Math.max(min, Math.min(max, value))
Clamp(v, lo, hi) == Max(lo, Min(hi, v))
\* x * (n / d) truncated toward zero, computed without leaving 32 bits
Frac(x, n, d) ==
    LET a == Abs(x)
        m == Abs(n)
        v == (a \div d) * m + ((a % d) * m) \div d
    IN  IF (x < 0) = (n < 0) THEN v ELSE -v
\* THREE.MathUtils.lerp(a, b, k) with k in permille
Lerp(a, b, k) == a + Frac(b - a, k, 1000)
\* JavaScript null for the numeric fields that start out as null
NULL == -1

\* Math.sin / Math.cos of an angle in milliradians, result in permille
\* (Bhaskara's rational approximation, exact at 0, pi/6, pi/2, pi)
PiMilli == 3142
SinHalf(a) ==
    LET p == (a * (PiMilli - a)) \div 1000
    IN  Min(1000, (16000 * p) \div (49348 - 4 * p))
Sin(a) ==
    LET r == Abs(a) % (2 * PiMilli)
        v == IF r <= PiMilli THEN SinHalf(r) ELSE -SinHalf(r - PiMilli)
    IN  IF a < 0 THEN -v ELSE v
Cos(a) == Sin(a + PiMilli \div 2)

\* b^n in permille for an integer n >= 0, by repeated squaring
RECURSIVE PowN(_, _)
PowN(bMilli, n) ==
    IF n = 0 THEN 1000
    ELSE LET h == PowN(bMilli, n \div 2)
             sq == (h * h) \div 1000
         IN  IF n % 2 = 1 THEN (sq * bMilli) \div 1000 ELSE sq
\* Math.pow(b, k * dt) for dt in centiseconds: bSec is b^k over one second
\* and bCs is b^k over one centisecond, both in permille
PowDt(bSec, bCs, dt) == (PowN(bSec, dt \div 100) * PowN(bCs, dt % 100)) \div 1000
\* a * b, saturating at Far
Mul(a, b) ==
    IF a = 0 \/ b = 0 THEN 0
    ELSE IF Abs(a) > Far \div Abs(b)
    THEN (IF (a < 0) = (b < 0) THEN Far ELSE -Far)
    ELSE a * b
\* position clamped into [lo, hi] and the velocity reflected off the wall
\* that was crossed, keeping k percent of its magnitude
Wall(p1, v1, lo, hi, k) ==
    [ p |-> Clamp(p1, lo, hi),
      v |-> IF p1 < lo THEN Frac(Abs(v1), k, 100)
            ELSE IF p1 > hi THEN -Frac(Abs(v1), k, 100)
            ELSE v1 ]
\* the same with the upper wall tested first
WallHi(p1, v1, lo, hi, k) ==
    [ p |-> Clamp(p1, lo, hi),
      v |-> IF p1 > hi THEN -Frac(Abs(v1), k, 100)
            ELSE IF p1 < lo THEN Frac(Abs(v1), k, 100)
            ELSE v1 ]

(***************************************************************************)
(* Tank environment                                                        *)
(***************************************************************************)
ViewHeight == 2200000
Widths == {1600000, 3600000}
worldH == ViewHeight

\* Aquarium constructor: inner water rectangle
AquariumOf(w, margin) ==
    [ innerLeft   |-> -(w \div 2) + margin,
      innerRight  |-> (w \div 2) - margin,
      innerBottom |-> -(worldH \div 2) + margin,
      innerTop    |-> (worldH \div 2) - margin ]
\* frameT = s * 0.028 and inset = s * 0.012 for s = min(w, h)
Aquarium(w) ==
    AquariumOf(w, Frac(Min(w, worldH), 28, 1000) + Frac(Min(w, worldH), 12, 1000))

\* Sand: bedH = height * 0.22 ; sand top = -h/2 + bedH
SandTopY == -(worldH \div 2) + Frac(worldH, 22, 100)

(***************************************************************************)
(* Shop data and prices                                                    *)
(***************************************************************************)
MODE_PROTO == "prototype"
MODE_FULL == "full"

EggTypes == {"basic", "schooling", "tropical", "saltwater", "ornamental",
             "deepsea", "mythical"}
DecorTypes == {"seaweed", "rock", "shell", "log", "coral", "sandcastle"}

\* shopData.eggs[].price
EggPrice(eggType) ==
    CASE eggType = "basic" -> 0
      [] eggType = "schooling" -> 35
      [] eggType = "tropical" -> 45
      [] eggType = "saltwater" -> 60
      [] eggType = "ornamental" -> 120
      [] eggType = "deepsea" -> 150
      [] eggType = "mythical" -> 190

\* shopData.decor[].price
DecorPrice(decorType) ==
    CASE decorType = "seaweed" -> 25
      [] decorType = "rock" -> 40
      [] decorType = "shell" -> 30
      [] decorType = "log" -> 55
      [] decorType = "coral" -> 80
      [] decorType = "sandcastle" -> 120

\* largest power of two that is <= n (n >= 1)
RECURSIVE Pow2Floor(_)
Pow2Floor(n) == IF n < 2 THEN 1 ELSE 2 * Pow2Floor(n \div 2)

\* Math.ceil(base * 1.12) in IEEE-754 double arithmetic.  The double nearest
\* to 1.12 is 1.12 + 0.48 * 2^-52.  When base * 1.12 is not an integer its
\* fraction is a multiple of 0.04 and rounding cannot cross an integer; when
\* it is an integer N, the product rounds to N only if the excess
\* base * 0.48 * 2^-52 is below half an ulp of N, and otherwise to the next
\* double above N, whose ceiling is N + 1.
CeilMul112(base) ==
    LET n == (28 * base) \div 25
    IN  IF (28 * base) % 25 # 0 THEN n + 1
        ELSE IF 24 * base < 25 * Pow2Floor(n) THEN n
        ELSE n + 1

sellPriceForEggType(eggType) ==
    LET base == EggPrice(eggType)
    IN  IF base <= 0 THEN 5 ELSE CeilMul112(base)

\* growthDurationForEggType, in centiseconds
growthDurationForEggType(eggType) ==
    CASE eggType = "basic" -> 1000
      [] eggType = "schooling" -> 3000
      [] eggType = "tropical" -> 6000
      [] eggType = "saltwater" -> 6000
      [] eggType = "ornamental" -> 6000
      [] eggType = "deepsea" -> 18000
      [] eggType = "mythical" -> 30000

(***************************************************************************)
(* Egg                                                                     *)
(***************************************************************************)
\* Egg constructor: this._r
EggR(w) == Max(30000, Min(48000, Frac(Min(w, worldH), 21, 1000)))

\* Egg._syncEnv
EggEnvOf(aq, pad) ==
    [ xMin |-> aq.innerLeft + pad, xMax |-> aq.innerRight - pad,
      yMin |-> aq.innerBottom + pad, yMax |-> aq.innerTop - pad,
      sandTopY |-> SandTopY ]
EggEnv(w) == EggEnvOf(Aquarium(w), Frac(EggR(w), 12, 10))

\* Math.random() inputs of the Egg constructor
EggSpawnK == {150}               \* 0.15 + 0.70 * random, permille
EggSpawnDrop == {125000}         \* 0.10 + 0.05 * random
EggVx0 == {20000}                \* (random * 2 - 1) * 0.03, per frame
EggVy0 == {-75000}               \* -0.06 - random * 0.03, per frame
EggPhase0 == {0}                 \* random * 2 pi, milliradians
EggHatchAt == {1000}             \* 7.5 + random * 5.0 seconds

\* new Egg({eggType, ...}) followed by _spawnDefault (no x / y given)
NewEggAt(uid, eggType, x0, y0, vx0, vy0, ph, hAt) ==
    [ uid |-> uid, eggType |-> eggType,
      x |-> x0, y |-> y0, gx |-> x0, gy |-> y0,
      vx |-> vx0, vy |-> vy0, phase |-> ph,
      landed |-> FALSE, age |-> 0, hatchAt |-> hAt,
      didHatch |-> FALSE ]
EggSpawnAt(uid, eggType, env, k, drop, vx0, vy0, ph, hAt) ==
    NewEggAt(uid, eggType, Lerp(env.xMin, env.xMax, k), env.yMax - drop,
             vx0, vy0, ph, hAt)
NewEgg(uid, eggType, w, k, drop, vx0, vy0, ph, hAt) ==
    EggSpawnAt(uid, eggType, EggEnv(w), k, drop, vx0, vy0, ph, hAt)

\* Egg.setEnvironment: re-derive the bounds, clamp, _applyPos
EggPlace(e, cx, cy) == [e EXCEPT !.x = cx, !.y = cy, !.gx = cx, !.gy = cy]
EggClampIn(e, env) ==
    EggPlace(e, Clamp(e.x, env.xMin, env.xMax), Clamp(e.y, env.yMin, env.yMax))
EggSetEnvironment(e, w) == EggClampIn(e, EggEnv(w))


\* Egg.update while falling (the branch of !this._landed)
EggFallVx(e, dt, now) ==
    Frac(e.vx + 300 * Frac(Sin(Frac(now * 10 + e.phase, 9, 10)), dt, 1000),
         PowDt(7, 951, dt), 1000)
EggFallVy(e, dt) == Frac(e.vy, PowDt(24, 964, dt), 1000) - 280 * dt
\* the wall test on x and the landing test on y
EggFallTo(e, dt, bx, y1, vy1, groundY) ==
    IF y1 <= groundY
    THEN [e EXCEPT !.x = bx.p, !.y = groundY, !.gx = bx.p, !.gy = groundY,
                   !.vx = Frac(bx.v, 25, 100), !.vy = 0,
                   !.landed = TRUE, !.age = e.age + dt]
    ELSE [e EXCEPT !.x = bx.p, !.y = y1, !.gx = bx.p, !.gy = y1,
                   !.vx = bx.v, !.vy = vy1, !.age = e.age + dt]
EggFallIn(e, dt, env, vx1, vy1, groundY) ==
    EggFallTo(e, dt, Wall(e.x + vx1, vx1, env.xMin, env.xMax, 55),
              e.y + vy1, vy1, groundY)
EggFall(e, dt, now, w) ==
    EggFallIn(e, dt, EggEnv(w), EggFallVx(e, dt, now), EggFallVy(e, dt),
              SandTopY + Frac(EggR(w), 38, 100))

\* Egg.update while landed: wobble jitter on the group position; the hatch
\* test follows in the loop, where the callback's effects are applied
EggIncubate(e, dt, now) ==
    [e EXCEPT !.gx = e.x + Frac(1900, Sin((now * 10 + e.phase) * 17), 1000),
              !.gy = e.y + Frac(1300, Cos((now * 10 + e.phase) * 13), 1000),
              !.age = e.age + dt]

\* the guard of "hatch ONCE" in Egg.update
EggHatchDue(e) == ~e.didHatch /\ e.age >= e.hatchAt

(***************************************************************************)
(* Fish classes                                                            *)
(***************************************************************************)
\* spawnHatchFish: specByType[eggType][i].kind
KindOf(eggType) ==
    CASE eggType = "basic" -> "common"
      [] eggType = "schooling" -> "school"
      [] eggType = "tropical" -> "trop"
      [] eggType = "saltwater" -> "reef"
      [] eggType = "ornamental" -> "orn"
      [] eggType = "deepsea" -> "deep"
      [] eggType = "mythical" -> "myth"

\* faulty variant: no entry for any egg type
SpecCountNone(eggType) == 0
\* spawnHatchFish: number of entries of specByType[eggType]
SpecCount(eggType) ==
    IF eggType \in {"deepsea", "schooling", "tropical", "mythical"} THEN 2 ELSE 1

\* speedMul handed to the class constructor for spec i of the egg type,
\* (or the class default when none is handed over), permille
SpeedMul(eggType, i) ==
    CASE eggType = "basic" -> 1000
      [] eggType = "schooling" -> 1000
      [] eggType = "tropical" -> 1050
      [] eggType = "saltwater" -> 850
      [] eggType = "ornamental" -> 920
      [] eggType = "deepsea" -> IF i = 1 THEN 650 ELSE 1000
      [] eggType = "mythical" -> IF i = 1 THEN 1050 ELSE 1180

\* the class that represents a fish of this egg type in the given mode
ClassFor(m, eggType) == IF m = MODE_PROTO THEN "prim" ELSE KindOf(eggType)

\* typeof obj._vx === "number"
HasV(cls) == cls \in {"prim", "school"}
\* typeof obj._dir === "number"
HasDir(cls) == cls # "school"

\* constructor half extents (no model loaded)
HalfW0(cls) ==
    CASE cls = "prim" -> 165000
      [] cls \in {"common", "trop", "school"} -> 120000
      [] cls \in {"reef", "myth"} -> 160000
      [] cls = "orn" -> 180000
      [] cls = "deep" -> 150000
HalfH0(cls) ==
    CASE cls = "prim" -> 50000
      [] cls \in {"common", "trop", "school"} -> 80000
      [] cls \in {"reef", "myth"} -> 100000
      [] cls \in {"orn", "deep"} -> 0

\* _syncBounds of each class (PrimitiveFish: constructor / setBounds / update)
Band(w, marginX, hw, lo, hi) ==
    [ xMin |-> -(w \div 2) + marginX + hw, xMax |-> w \div 2 - marginX - hw,
      yMin |-> lo, yMax |-> hi ]
PrimBounds(aq, hw) ==
    [ xMin |-> aq.innerLeft + hw + 40000, xMax |-> aq.innerRight - hw - 40000,
      yMin |-> aq.innerBottom + 180000, yMax |-> aq.innerTop - 120000 ]
\* marginX = max(k * w, least) and the sand margin max(k * h, least)
MarginX(w, k, least) == Max(Frac(w, k, 100), least)
MarginY(k, least) == Max(Frac(worldH, k, 100), least)
\* ReefFish: yHi is raised to yLo + 0.15; a band too thin for the body
\* becomes mid -/+ 0.05
ReefFix(w, hw, hh, lo, hi) ==
    IF hi - hh < lo + hh
    THEN Band(w, MarginX(w, 10, 220000), hw,
              (lo + hh + hi - hh) \div 2 - 50000, (lo + hh + hi - hh) \div 2 + 50000)
    ELSE Band(w, MarginX(w, 10, 220000), hw, lo + hh, hi - hh)
ReefBounds(w, hw, hh, lo, hi0) ==
    ReefFix(w, hw, hh, lo, IF hi0 < lo + 150000 THEN lo + 150000 ELSE hi0)
\* MythicalFish: yHi is raised to yLo + 0.16
MythBounds(w, hw, hh, lo, hi0) ==
    Band(w, MarginX(w, 10, 220000), hw, lo + hh,
         (IF hi0 < lo + 160000 THEN lo + 160000 ELSE hi0) - hh)
DeepBounds(w, lo) ==
    Band(w, MarginX(w, 10, 220000), 0, lo, lo + MarginY(16, 220000))
FishBounds(cls, w, hw, hh) ==
    CASE cls = "prim" -> PrimBounds(Aquarium(w), hw)
      [] cls = "common" ->
           Band(w, MarginX(w, 8, 180000), hw,
                SandTopY + MarginY(8, 120000) + hh,
                Aquarium(w).innerTop - hh)
      [] cls = "school" ->
           Band(w, MarginX(w, 8, 180000), hw,
                SandTopY + MarginY(8, 120000) + hh,
                Aquarium(w).innerTop - MarginY(4, 140000) - hh)
      [] cls = "trop" ->
           Band(w, MarginX(w, 8, 180000), hw,
                SandTopY + MarginY(8, 120000) + Frac(worldH, 6, 100) + hh,
                worldH \div 2 - MarginY(10, 160000) - hh)
      [] cls = "orn" ->
           Band(w, MarginX(w, 9, 200000), hw,
                SandTopY + MarginY(9, 130000) + Frac(worldH, 8, 100),
                worldH \div 2 - MarginY(11, 180000))
      [] cls = "reef" ->
           ReefBounds(w, hw, hh,
                      SandTopY + MarginY(10, 140000) + Frac(worldH, 6, 100),
                      worldH \div 2 - MarginY(12, 180000) - Frac(worldH, 22, 100))
      [] cls = "deep" -> DeepBounds(w, SandTopY + MarginY(4, 60000))
      [] cls = "myth" ->
           MythBounds(w, hw, hh,
                      SandTopY + MarginY(10, 140000) + Frac(worldH, 18, 100),
                      Aquarium(w).innerTop - MarginY(12, 180000)
                        - Frac(worldH, 4, 100))

\* this._speed (times speedMul where the class applies one), micro units
\* per centisecond
FishSpeed(cls, w, mul) ==
    LET base ==
          CASE cls = "common" -> Clamp(Frac(w, 12, 100), 180000, 750000)
            [] cls = "trop" -> Clamp(Frac(w, 13, 100), 200000, 900000)
            [] cls = "deep" -> Clamp(Frac(w, 10, 100), 140000, 550000)
            [] cls = "orn" -> 260000
            [] cls = "reef" -> 200000
            [] cls = "myth" -> 440000
            [] OTHER -> 0
    IN  IF cls = "common" THEN base \div 100 ELSE Frac(base, mul, 1000) \div 100

\* this._bobAmp after _syncBounds (SchoolingFish draws its own at random)
FishBobAmp(cls, schoolBob) ==
    CASE cls = "prim" -> 20000
      [] cls = "common" -> Clamp(Frac(worldH, 12, 1000), 18000, 45000)
      [] cls = "trop" -> Clamp(Frac(worldH, 13, 1000), 20000, 50000)
      [] cls = "deep" -> Clamp(Frac(worldH, 16, 1000), 25000, 50000)
      [] cls = "orn" -> 30000
      [] cls = "reef" -> 22000
      [] cls = "myth" -> 30000
      [] cls = "school" -> schoolBob

\* per-class constants of update(): vertical drift amplitude (per second),
\* drift rate and factor, bob rate (permille), turn cooldown (centiseconds)
Wave(cls) ==
    CASE cls = "common" -> [amp |-> 30000, rate |-> 700, mul |-> 550, bob |-> 900, cd |-> 12]
      [] cls = "trop" -> [amp |-> 60000, rate |-> 650, mul |-> 2000, bob |-> 1150, cd |-> 10]
      [] cls = "orn" -> [amp |-> 45000, rate |-> 420, mul |-> 2000, bob |-> 850, cd |-> 15]
      [] cls = "reef" -> [amp |-> 40000, rate |-> 320, mul |-> 2000, bob |-> 550, cd |-> 20]
      [] cls = "deep" -> [amp |-> 50000, rate |-> 320, mul |-> 2000, bob |-> 650, cd |-> 12]
      [] cls = "myth" -> [amp |-> 85000, rate |-> 420, mul |-> 2000, bob |-> 920, cd |-> 18]

\* classes whose update() clamps group.position.y after adding the bob
ClampsBob(cls) == cls \in {"common", "trop", "reef", "myth"}
\* classes whose _clampToBounds / setBounds also moves group.position
ClampMovesGroup(cls) == cls \in {"orn", "reef", "myth", "school"}

\* Math.random() inputs of the fish constructors
FishRand == [ sgn : {-1, 1} ]
PrimSpeed0 == 1700               \* 0.12 + random * 0.10 per second
PrimVy0 == 300                   \* random * 0.06 - 0.03 per second
FishPhase0 == 1571               \* random * 2 pi, milliradians
SchoolBob0 == 22000              \* 0.018 + 0.008 * random
SpawnLockTime == 35
FaceHoldTime == 22

\* the part of a fish record that is the class instance (hf.obj), as its
\* constructor leaves it; x / y are overwritten by every caller
NewObj(cls, w, rnd) ==
    [ cls |-> cls, x |-> 0, y |-> 0, gx |-> 0, gy |-> 0,
      vx |-> IF cls = "prim" THEN rnd.sgn * PrimSpeed0 ELSE 0,
      vy |-> IF cls = "prim" THEN PrimVy0 ELSE 0,
      dir |-> rnd.sgn,
      phase |-> FishPhase0,
      bobAmp |-> FishBobAmp(cls, SchoolBob0),
      hw |-> HalfW0(cls), hh |-> HalfH0(cls),
      rootScale |-> IF cls = "prim" THEN 1000 ELSE NULL,
      boxH |-> IF cls = "prim" THEN 50000 ELSE 0,
      cooldown |-> 0,
      spawnLocked |-> (cls = "common"),
      lockTime |-> IF cls = "common" THEN SpawnLockTime ELSE 0,
      holdDir |-> 0, holdT |-> 0 ]

\* clampYForFish(obj, y): every class carries _yMin / _yMax
ClampYIn(o, y, b) == Clamp(y, b.yMin + Abs(o.bobAmp), b.yMax - Abs(o.bobAmp))
clampYForFish(o, y, w) == ClampYIn(o, y, FishBounds(o.cls, w, o.hw, o.hh))

\* enforceTopCeiling(obj): the rendered box reaches boxH * |root scale|
\* above the group (0.05 for a PrimitiveFish); a class whose model is not
\* loaded has an empty box and is left alone
CeilingAt(o, top, maxY) ==
    IF o.rootScale # NULL /\ maxY > top
    THEN [o EXCEPT !.gy = o.gy + (top - maxY), !.y = o.y + (top - maxY),
                   !.vy = IF HasV(o.cls) THEN Min(0, o.vy) ELSE o.vy]
    ELSE o
enforceTopCeiling(o, w) ==
    CeilingAt(o, Aquarium(w).innerTop - 60000,
              o.gy + Frac(o.boxH, o.rootScale, 1000))

\* setBounds(w, h, aquarium) of each class
SetBoundsTo(o, cx, cy) ==
    IF ClampMovesGroup(o.cls)
    THEN [o EXCEPT !.x = cx, !.y = cy, !.gx = cx, !.gy = cy]
    ELSE [o EXCEPT !.x = cx, !.y = cy]
SetBoundsIn(o, b) ==
    SetBoundsTo(o, Clamp(o.x, b.xMin, b.xMax), Clamp(o.y, b.yMin, b.yMax))
FishSetBounds(o, w) ==
    IF o.cls = "prim"
    THEN \* _recalcHalfExtents from the root's current scale; no clamp
         [o EXCEPT !.hw = Max(1000, Frac(165000, o.rootScale, 1000)),
                   !.hh = Max(1000, Frac(50000, o.rootScale, 1000))]
    ELSE SetBoundsIn(o, FishBounds(o.cls, w, o.hw, o.hh))

\* specByType[eggType][i].scaleMul, permille
ScaleMul(eggType, i) ==
    CASE eggType = "basic" -> 500
      [] eggType = "schooling" -> IF i = 1 THEN 2000 ELSE 1500
      [] eggType = "tropical" -> IF i = 1 THEN 620 ELSE 600
      [] eggType = "saltwater" -> 1600
      [] eggType = "ornamental" -> 1380
      [] eggType = "deepsea" -> IF i = 1 THEN 950 ELSE 840
      [] eggType = "mythical" -> IF i = 1 THEN 920 ELSE 950

\* the box of a loaded model before scaling: its width and height, the
\* longest side being one of the two
ModelShapes == { [mx |-> 1000000, my |-> 400000],
                 [mx |-> 1000000, my |-> 1000000] }
Longest(shape) == Max(1, Max(shape.mx, shape.my))

\* _rescaleToView: the length the longest side of the model is scaled to
TargetLen(cls, w, mul) ==
    CASE cls \in {"common", "trop", "school", "deep"} ->
           Frac(Max(220000, Frac(w, 16, 100)) \div 3, mul, 1000)
      [] cls = "orn" -> Frac(Frac(w, 16, 100) \div 3, mul, 1000)
      [] cls = "reef" -> Frac(Frac(Min(w, worldH), 22, 100), mul, 1000)
      [] cls = "myth" -> Frac(Frac(Min(w, worldH), 26, 100), mul, 1000)
\* _rescaleToView: the half extents measured on the scaled model
MeasuredHalfW(cls, hw0, sx) ==
    CASE cls \in {"common", "trop", "school"} -> Max(60000, sx \div 2)
      [] cls = "reef" -> Max(80000, sx \div 2)
      [] cls = "myth" -> Max(100000, sx \div 2)
      [] cls = "orn" -> Max(100000, sx \div 2)
      [] OTHER -> hw0
MeasuredHalfH(cls, hh0, sy) ==
    CASE cls \in {"common", "trop", "school"} -> Max(50000, sy \div 2)
      [] cls = "reef" -> Max(60000, sy \div 2)
      [] cls = "myth" -> Max(70000, sy \div 2)
      [] OTHER -> hh0
\* _rescaleToView: root.scale, then the half extents
Rescaled(o, shape, target) ==
    [o EXCEPT !.rootScale = Frac(target, 1000, Longest(shape)),
              !.boxH = shape.my \div 2,
              !.hw = MeasuredHalfW(o.cls, o.hw,
                                   Frac(target, shape.mx \div 1000,
                                        Longest(shape) \div 1000)),
              !.hh = MeasuredHalfH(o.cls, o.hh,
                                   Frac(target, shape.my \div 1000,
                                        Longest(shape) \div 1000))]
\* _rescaleToView: what happens to the position after _syncBounds
\*   CommonFish: the logical position is clamped; a group still at the
\*     origin is moved to it, otherwise the logical position is re-read
\*     from the group and clamped
\*   SchoolingFish: at the origin _clampToBounds; otherwise the group's
\*     position is clamped and written to both
\*   TropicalFish, ReefFish, MythicalFish, OrnamentalFish: the logical
\*     position is clamped and written to the group
\*   DeepSeaCreature: nothing
Replaced(o, b) ==
    LET cx == Clamp(o.x, b.xMin, b.xMax)
        cy == Clamp(o.y, b.yMin, b.yMax)
        px == Clamp(o.gx, b.xMin, b.xMax)
        py == Clamp(o.gy, b.yMin, b.yMax)
        atOrigin == o.gx = 0 /\ o.gy = 0
    IN  CASE o.cls = "common" ->
               IF atOrigin THEN [o EXCEPT !.x = cx, !.y = cy, !.gx = cx, !.gy = cy]
               ELSE [o EXCEPT !.x = px, !.y = py]
          [] o.cls = "school" ->
               IF atOrigin THEN [o EXCEPT !.x = cx, !.y = cy, !.gx = cx, !.gy = cy]
               ELSE [o EXCEPT !.x = px, !.y = py, !.gx = px, !.gy = py]
          [] o.cls \in {"trop", "reef", "myth", "orn"} ->
               [o EXCEPT !.x = cx, !.y = cy, !.gx = cx, !.gy = cy]
          [] OTHER -> o
ReplacedIn(o, w) == Replaced(o, FishBounds(o.cls, w, o.hw, o.hh))
\* the loader's completion callback of a fish class: this._root = root,
\* then _rescaleToView()
OnModelLoad(f, w, shape) ==
    ReplacedIn(Rescaled(f, shape,
                        TargetLen(f.cls, w, ScaleMul(f.eggType, f.spec))), w)

\* faulty variant: the upper wall is not tested
PrimWallOpen(p1, v, d, lo, hi) ==
    IF p1 < lo THEN [ p |-> lo, v |-> Abs(v), d |-> 1 ]
    ELSE [ p |-> p1, v |-> v, d |-> d ]
\* PrimitiveFish.update
PrimWall(p1, v, d, lo, hi) ==
    IF (IF p1 < lo THEN lo ELSE p1) > hi
    THEN [ p |-> hi, v |-> -Abs(v), d |-> -1 ]
    ELSE IF p1 < lo THEN [ p |-> lo, v |-> Abs(v), d |-> 1 ]
    ELSE [ p |-> p1, v |-> v, d |-> d ]
PrimApply(o, ph, bx, by) ==
    [o EXCEPT !.phase = ph, !.x = bx.p, !.y = by.p, !.gx = bx.p, !.gy = by.p,
              !.vx = bx.v, !.vy = by.v, !.dir = bx.d]
PrimStep(o, dt, b, ph) ==
    PrimApply(o, ph,
              PrimWall(o.x + o.vx * dt, o.vx, o.dir, b.xMin, b.xMax),
              PrimWall(o.y + o.vy * dt
                         + Frac(Frac(Frac(o.bobAmp, Sin(ph), 1000), dt, 100), 35, 100),
                       o.vy, 0, b.yMin, b.yMax))
PrimUpdate(o, dt, w) ==
    PrimStep(o, dt, FishBounds("prim", w, o.hw, o.hh),
             o.phase + Frac(dt * 10, 115, 100))

\* update() of CommonFish while _spawnLocked
LockedStep(o, lt, b, now) ==
    IF lt <= 0
    THEN [o EXCEPT !.lockTime = lt, !.spawnLocked = FALSE,
                   !.phase = -(now * 10),
                   !.x = Clamp(o.gx, b.xMin, b.xMax),
                   !.y = Clamp(o.gy, b.yMin, b.yMax)]
    ELSE [o EXCEPT !.lockTime = lt, !.x = o.gx, !.y = o.gy]
CommonLockedUpdate(o, dt, now, w) ==
    LockedStep(o, Max(0, o.lockTime - dt), FishBounds(o.cls, w, o.hw, o.hh), now)

\* update() of the patrolling classes (common, trop, orn, reef, deep, myth)
PatrolCooldown(o, dt) ==
    IF o.cooldown > 0
    THEN (IF o.cls = "orn" THEN o.cooldown - dt ELSE Max(0, o.cooldown - dt))
    ELSE o.cooldown
PatrolDrift(o, now, k) ==
    Frac(k.amp, Sin(Frac(o.phase + Frac(now * 10, k.rate, 1000), k.mul, 1000)), 1000)
PatrolBob(o, now, k) ==
    Frac(o.bobAmp, Sin(Frac(o.phase + now * 10, k.bob, 1000)), 1000)
\* _flip(d) is refused while the cooldown runs
PatrolApply(o, b, k, cd1, x2, hit, y1, bob) ==
    [o EXCEPT !.cooldown = IF hit # 0 /\ ~(cd1 > 0) THEN k.cd ELSE cd1,
              !.dir = IF hit # 0 /\ ~(cd1 > 0) THEN hit ELSE o.dir,
              !.x = x2, !.y = y1, !.gx = x2,
              !.gy = IF ClampsBob(o.cls) THEN Clamp(y1 + bob, b.yMin, b.yMax)
                     ELSE y1 + bob]
PatrolIn(o, dt, now, b, k, cd1, x1) ==
    PatrolApply(o, b, k, cd1, Clamp(x1, b.xMin, b.xMax),
                IF x1 > b.xMax THEN -1 ELSE IF x1 < b.xMin THEN 1 ELSE 0,
                Clamp(o.y + Frac(PatrolDrift(o, now, k), dt, 100), b.yMin, b.yMax),
                PatrolBob(o, now, k))
PatrolUpdate(o, dt, now, w, mul) ==
    PatrolIn(o, dt, now, FishBounds(o.cls, w, o.hw, o.hh), Wave(o.cls),
             PatrolCooldown(o, dt), o.x + o.dir * FishSpeed(o.cls, w, mul) * dt)

\* SchoolingFish: _maxSpeed and _maxAccel after _syncBounds
SchoolMaxSpeed(w, mul) ==
    Frac(Clamp(Frac(w, 19, 100), 280000, 920000), mul, 1000) \div 100
SchoolMaxAccel(w) ==
    Clamp(Frac(Frac(w, 19, 100), 215, 100), 950000, 2450000) \div 100

\* SchoolingFish.update.  The school leader the fish steers after moves on
\* its own random targets; the direction of the desired velocity is the
\* input sd (toward +x or -x) and the steering is applied per component.
SchoolApply(o, b, bx, by, bob, side, hold) ==
    [o EXCEPT !.x = bx.p, !.y = by.p, !.vx = bx.v, !.vy = by.v,
              !.gx = bx.p,
              !.gy = Clamp(by.p + bob, b.yMin + o.bobAmp, b.yMax - o.bobAmp),
              !.holdDir = side, !.holdT = hold,
              !.dir = IF side # 0 /\ hold >= FaceHoldTime THEN side ELSE o.dir]
\* facing hold: _faceDir follows _vx once it has stayed beyond the
\* _faceFlipThreshold for _faceHoldTime
SchoolFace(o, dt, b, bx, by, bob, side) ==
    SchoolApply(o, b, bx, by, bob, side,
                IF side = 0 THEN 0
                ELSE (IF o.holdDir # side THEN 0 ELSE o.holdT) + dt)
SchoolMoveTo(o, dt, b, bx, by, bob, thr) ==
    SchoolFace(o, dt, b, bx, by, bob,
               IF bx.v > thr THEN 1 ELSE IF bx.v < -thr THEN -1 ELSE 0)
SchoolMove(o, dt, now, b, maxSp, vx2, vy2) ==
    SchoolMoveTo(o, dt, b,
                 WallHi(o.x + vx2 * dt, vx2, b.xMin, b.xMax, 55),
                 WallHi(o.y + vy2 * dt, vy2, b.yMin, b.yMax, 55),
                 Frac(o.bobAmp, Sin(o.phase + now * 10), 1000),
                 Clamp(Frac(maxSp, 12, 100), 450, 1300))
SchoolSteer(o, dt, now, b, maxSp, dvMax, sd) ==
    SchoolMove(o, dt, now, b, maxSp,
               Clamp(Frac(o.vx + Clamp(sd * maxSp - o.vx, -dvMax, dvMax),
                          PowDt(920, 999, dt), 1000), -maxSp, maxSp),
               Clamp(Frac(o.vy + Clamp(0 - o.vy, -dvMax, dvMax),
                          PowDt(920, 999, dt), 1000), -maxSp, maxSp))
SchoolUpdate(o, dt, now, w, mul, sd) ==
    SchoolSteer(o, dt, now, FishBounds(o.cls, w, o.hw, o.hh),
                SchoolMaxSpeed(w, mul), Frac(SchoolMaxAccel(w), dt, 100), sd)

\* hf.obj.update(dt, t) for whatever class the fish currently has
ObjUpdate(o, dt, now, w, mul, sd) ==
    CASE o.cls = "prim" -> PrimUpdate(o, dt, w)
      [] o.cls = "school" -> SchoolUpdate(o, dt, now, w, mul, sd)
      [] o.cls = "common" /\ o.spawnLocked -> CommonLockedUpdate(o, dt, now, w)
      [] OTHER -> PatrolUpdate(o, dt, now, w, mul)

(***************************************************************************)
(* The shared school of SchoolingFish.  The leader is kept in milli world  *)
(* units, its velocity in milli units per second, its timer in             *)
(* centiseconds.                                                           *)
(***************************************************************************)
\* floor of the square root, by bisection
RECURSIVE SqrtIn(_, _, _)
SqrtStep(n, lo, hi, mid) ==
    IF mid * mid <= n THEN SqrtIn(n, mid, hi) ELSE SqrtIn(n, lo, mid - 1)
SqrtIn(n, lo, hi) ==
    IF lo >= hi THEN lo ELSE SqrtStep(n, lo, hi, (lo + hi + 1) \div 2)
\* Math.sqrt(a * a + b * b)
Hypot(a, b) == SqrtIn(a * a + b * b, 0, 8000)
\* (d / len) * size, and 0 for the 1e-6 that stands in for a zero length
Towards(d, len, size) == IF len = 0 THEN 0 ELSE Frac(d, size, len)

\* Math.random() inputs of _tickSchool and _pickNewTarget
SchoolRand == [ sgn : {-1, 1}, vy : {30}, kx : {180, 820}, ky : {500},
                tm : {280} ]

\* no SchoolingFish has registered a school
NoSchool ==
    [ w |-> 0, needsRespawn |-> FALSE, leaderHalfH |-> 0, topBuffer |-> 0,
      x |-> 0, y |-> 0, vx |-> 0, vy |-> 0, timer |-> 0, tx |-> 0, ty |-> 0,
      ticks |-> 0 ]
\* SchoolingFish._getSchool for a new id, then the constructor's
\* leaderHalfH = _halfH and topBuffer = _topBuffer
GetSchool(w) ==
    [ w |-> w, needsRespawn |-> TRUE, leaderHalfH |-> 80, topBuffer |-> 140,
      x |-> 0, y |-> 0, vx |-> 300, vy |-> 60, timer |-> 0, tx |-> 0, ty |-> 0,
      ticks |-> 0 ]

\* yMax of the leader and of its targets
LeaderTop(s) == Aquarium(s.w).innerTop \div 1000 - s.topBuffer - s.leaderHalfH
\* SchoolingFish._pickNewTarget
TargetOf(s, xMin, xMax, yMin, yMax, rnd) ==
    [s EXCEPT !.tx = Lerp(xMin, xMax, rnd.kx), !.ty = Lerp(yMin, yMax, rnd.ky),
              !.timer = rnd.tm]
TargetIn(s, wm, hm, rnd) ==
    TargetOf(s, -(wm \div 2) + Max(Frac(wm, 12, 100), 260),
             wm \div 2 - Max(Frac(wm, 12, 100), 260),
             SandTopY \div 1000 + Max(Frac(hm, 10, 100), 140) + Frac(hm, 6, 100),
             LeaderTop(s), rnd)
PickNewTarget(s, rnd) == TargetIn(s, s.w \div 1000, worldH \div 1000, rnd)

\* _tickSchool: the needsRespawn block
Respawn(s, rnd) ==
    IF s.needsRespawn
    THEN PickNewTarget([s EXCEPT !.needsRespawn = FALSE, !.timer = 0,
                                 !.x = 0, !.y = 0, !.vx = 300 * rnd.sgn,
                                 !.vy = rnd.vy], rnd)
    ELSE s
\* _tickSchool: s.timer -= dt; if (s.timer <= 0) _pickNewTarget(s)
Countdown(s, dt, rnd) ==
    IF s.timer - dt <= 0
    THEN PickNewTarget([s EXCEPT !.timer = s.timer - dt], rnd)
    ELSE [s EXCEPT !.timer = s.timer - dt]
\* _tickSchool: steering, damping, speed limit, move, walls
LeaderMaxSpeed(s) == Clamp(Frac(s.w \div 1000, 15, 100), 220, 800)
LeaderMaxAccel(s) == Clamp(Frac(s.w \div 1000, 42, 100), 550, 1450)
LeaderDesired(maxSp, dist) ==
    IF dist < 550
    THEN Frac(maxSp, Clamp((dist * 1000) \div 550, 100, 1000), 1000)
    ELSE maxSp
LeaderPut(s, bx, by) ==
    [s EXCEPT !.x = bx.p, !.vx = bx.v, !.y = by.p, !.vy = by.v,
              !.ticks = s.ticks + 1]
LeaderWalls(s, dt, wm, vx, vy) ==
    LeaderPut(s,
              WallHi(s.x + Frac(vx, dt, 100), vx,
                     -(wm \div 2) + Max(Frac(wm, 10, 100), 220),
                     wm \div 2 - Max(Frac(wm, 10, 100), 220), 65),
              WallHi(s.y + Frac(vy, dt, 100), vy,
                     SandTopY \div 1000 + Max(Frac(worldH \div 1000, 10, 100), 140),
                     LeaderTop(s), 65))
LeaderLimit(s, dt, maxSp, vx, vy, sp) ==
    LeaderWalls(s, dt, s.w \div 1000,
                IF sp > maxSp THEN Frac(vx, maxSp, sp) ELSE vx,
                IF sp > maxSp THEN Frac(vy, maxSp, sp) ELSE vy)
LeaderDamp(s, dt, maxSp, vx, vy) ==
    LeaderLimit(s, dt, maxSp, vx, vy, Hypot(vx, vy))
LeaderKick(s, dt, maxSp, dvx, dvy, dLen, step) ==
    LeaderDamp(s, dt, maxSp,
               Frac(s.vx + Towards(dvx, dLen, step), PowDt(900, 999, dt), 1000),
               Frac(s.vy + Towards(dvy, dLen, step), PowDt(900, 999, dt), 1000))
LeaderAccel(s, dt, maxSp, maxAcc, dvx, dvy, dLen) ==
    LeaderKick(s, dt, maxSp, dvx, dvy, dLen, Min(Frac(maxAcc, dt, 100), dLen))
LeaderAim(s, dt, maxSp, maxAcc, dvx, dvy) ==
    LeaderAccel(s, dt, maxSp, maxAcc, dvx, dvy, Hypot(dvx, dvy))
LeaderSteer(s, dt, maxSp, maxAcc, dx, dy, dist, want) ==
    LeaderAim(s, dt, maxSp, maxAcc,
              Towards(dx, dist, want) - s.vx, Towards(dy, dist, want) - s.vy)
LeaderSeek(s, dt, maxSp, dx, dy, dist) ==
    LeaderSteer(s, dt, maxSp, LeaderMaxAccel(s), dx, dy, dist,
                LeaderDesired(maxSp, dist))
LeaderChase(s, dt, dx, dy) ==
    LeaderSeek(s, dt, LeaderMaxSpeed(s), dx, dy, Hypot(dx, dy))
LeaderGo(s, dt) == LeaderChase(s, dt, s.tx - s.x, s.ty - s.y)
\* SchoolingFish._tickSchool(s, dt)
tickSchool(s, dt, rnd) == LeaderGo(Countdown(Respawn(s, rnd), dt, rnd), dt)

\* new SchoolingFish({schoolId, ...}): _spawnInitialPosition
ShoalPlace(o, b, rnd) ==
    [o EXCEPT !.x = Lerp(b.xMin, b.xMax, 500), !.y = Lerp(b.yMin, b.yMax, 525),
              !.gx = Lerp(b.xMin, b.xMax, 500), !.gy = Lerp(b.yMin, b.yMax, 525),
              !.vx = rnd.sgn * 600, !.vy = 0, !.dir = rnd.sgn]
ShoalMember(w, rnd) ==
    ShoalPlace(NewObj("school", w, rnd),
               FishBounds("school", w, HalfW0("school"), HalfH0("school")), rnd)
\* SchoolingFish.update(dt, t) of one member: it ticks the shared school,
\* then steers after the leader
ShoalVisit(i, st, s1, dt, now, w) ==
    [ school |-> s1,
      shoal |-> [st.shoal EXCEPT ![i] =
                    SchoolUpdate(st.shoal[i], dt, now, w, 1000,
                                 IF s1.x * 1000 >= st.shoal[i].x THEN 1 ELSE -1)] ]
RECURSIVE ShoalPass(_, _, _, _, _, _)
ShoalPass(i, st, dt, now, w, rnd) ==
    IF i > Len(st.shoal) THEN st
    ELSE ShoalPass(i + 1,
                   ShoalVisit(i, st, tickSchool(st.school, dt, rnd), dt, now, w),
                   dt, now, w, rnd)

(***************************************************************************)
(* Hatched fish records (hf) and the loop's per-fish passes                *)
(***************************************************************************)
LiftDur == 220
LiftDist == 220000
SettleExtra == 35
StartF == 140
EndF == 1000

\* eased growth fraction f*f*(3-2f) of a fish at time now, permille
\* faulty variant: the cubic's coefficients swapped, f*f*(2-3f)
EaseOfSwapped(fp) == (((fp * fp) \div 1000) * (2000 - 3 * fp)) \div 1000
EaseOf(fp) == (((fp * fp) \div 1000) * (3000 - 2 * fp)) \div 1000
GrowFrac(age, growDur) ==
    IF age >= growDur THEN 1000
    ELSE IF age <= 0 THEN 0
    ELSE (age * 1000) \div growDur
Eased(f, now) == EaseOf(GrowFrac(now - f.bornAt, f.growDur))

\* loop: s = lerp(hf.startF, hf.endF, eased) at an age, permille
GrowthScale(age, growDur) == Lerp(StartF, EndF, EaseOf(GrowFrac(age, growDur)))
\* the ages sampled: twentieths of the growth duration
SampleAge(growDur, k) == (k * growDur) \div 20
NoSample == [ age |-> 0, growDur |-> 0, s |-> NULL ]

\* spawnHatchFish(eggType, x, y): the record pushed onto hatchFish
HatchRecord(o, id, eggType, spec, x, baseY, now) ==
    [ o EXCEPT !.x = x, !.y = baseY, !.gx = x, !.gy = baseY ] @@
    [ id |-> id, eggType |-> eggType, spec |-> spec,
      bornAt |-> now, growDur |-> growthDurationForEggType(eggType),
      adultRootScale |-> NULL, baseX |-> x, baseY |-> baseY,
      liftStart |-> NULL, liftDone |-> FALSE, settleUntil |-> NULL ]
HatchPlace(o, id, eggType, spec, x, y, w, now) ==
    HatchRecord(o, id, eggType, spec, x, clampYForFish(o, y, w), now)
spawnHatchFish(id, eggType, x, y, m, w, now, rnd) ==
    HatchPlace(NewObj(ClassFor(m, eggType), w, rnd), id, eggType, rnd.spec,
               x, y, w, now)

\* loop: the movement pass for one fish (skipped while lifting / settling)
FishMove(f, dt, now, w, sd) ==
    IF ~f.liftDone \/ (f.settleUntil # NULL /\ now < f.settleUntil) THEN f
    ELSE enforceTopCeiling(
             ObjUpdate(f, dt, now, w, SpeedMul(f.eggType, f.spec), sd), w)

\* loop: growth animation for one fish
GrowTo(f, adult, s) ==
    [f EXCEPT !.adultRootScale = adult, !.rootScale = Frac(adult, s, 1000)]
FishGrow(f, now) ==
    IF f.rootScale = NULL THEN f
    ELSE GrowTo(f, IF f.adultRootScale = NULL THEN f.rootScale
                   ELSE f.adultRootScale,
                Lerp(StartF, EndF, Eased(f, now)))

\* loop: hatch lift animation for one fish
LiftEase(u) == 1000 - ((1000 - u) * (1000 - u) * (1000 - u)) \div 1000000
LiftFrac(now, ls) ==
    IF now - ls >= LiftDur THEN 1000 ELSE ((now - ls) * 1000) \div LiftDur
\* hf.liftStart, then the group raised to the clamped height
LiftSet(f, ls, y) == [f EXCEPT !.liftStart = ls, !.gy = y, !.y = y]
\* hf.obj.group.position.x = hf.baseX, and obj._x with it
LiftPin(f) == [f EXCEPT !.gx = f.baseX, !.x = f.baseX]
LiftSettle(f, now, finalY) ==
    [f EXCEPT !.settleUntil = now + SettleExtra, !.x = f.baseX, !.y = finalY]
LiftFinish(f, now, w, finalY) ==
    LiftSettle(enforceTopCeiling(
                   [f EXCEPT !.liftDone = TRUE, !.baseY = finalY,
                             !.gy = finalY, !.y = finalY], w),
               now, finalY)
LiftRise(f, w, ls, u) ==
    LiftPin(enforceTopCeiling(
                LiftSet(f, ls,
                        clampYForFish(f, f.baseY + Frac(LiftDist, LiftEase(u), 1000), w)),
                w))
LiftAt(f, now, w, ls, u) ==
    IF u >= 1000
    THEN LiftFinish(LiftRise(f, w, ls, u), now, w,
                    clampYForFish(f, f.baseY + LiftDist, w))
    ELSE LiftRise(f, w, ls, u)
LiftFrom(f, now, w, ls) == LiftAt(f, now, w, ls, LiftFrac(now, ls))
\* faulty variant: the lift pass leaves every fish as it is
FishLiftStuck(f, now, w) == f
\* loop: the hatch lift of one fish, until hf.liftDone
FishLift(f, now, w) ==
    IF f.liftDone THEN f
    ELSE LiftFrom(f, now, w, IF f.liftStart = NULL THEN now ELSE f.liftStart)

\* retargetGrowthForMode(hf, now)
retargetGrowthForMode(f, now) ==
    IF f.rootScale = NULL THEN [f EXCEPT !.adultRootScale = NULL]
    ELSE [f EXCEPT !.adultRootScale = NULL,
                   !.rootScale = Frac(f.rootScale, Lerp(StartF, EndF, Eased(f, now)), 1000)]

\* rebuildHatchedVisualsForMode, for one fish: snapshot, new class instance
\* for the mode, restore
RebuildWith(f, o, keepV, snapDir, vx1, now) ==
    retargetGrowthForMode(
        [ f EXCEPT !.cls = o.cls, !.vx = vx1,
                   !.vy = IF keepV THEN f.vy ELSE o.vy,
                   !.dir = IF o.cls = "prim" THEN (IF vx1 >= 0 THEN 1 ELSE -1)
                           ELSE IF HasDir(o.cls) THEN snapDir
                           ELSE o.dir,
                   !.bobAmp = o.bobAmp, !.hw = o.hw, !.hh = o.hh,
                   !.rootScale = o.rootScale, !.boxH = o.boxH,
                   !.cooldown = o.cooldown,
                   !.spawnLocked = o.spawnLocked, !.lockTime = o.lockTime,
                   !.holdDir = o.holdDir, !.holdT = o.holdT ],
        now)
RebuildInto(f, o, keepV, now) ==
    RebuildWith(f, o, keepV, IF HasDir(f.cls) THEN f.dir ELSE 1,
                IF keepV THEN f.vx ELSE o.vx, now)
RebuildFish(f, m, w, now, rnd) ==
    RebuildInto(f, NewObj(ClassFor(m, f.eggType), w, rnd),
                HasV(f.cls) /\ HasV(ClassFor(m, f.eggType)), now)

(***************************************************************************)
(* Sell list                                                               *)
(***************************************************************************)
\* faulty variant: a fish aged exactly growDur is still skipped
NotAdultStrict(f, now) == now - f.bornAt <= f.growDur
\* rebuildSellList: the "adult check" that skips a fish
NotAdult(f, now) == now - f.bornAt < f.growDur

RECURSIVE rebuildSellList(_, _)
rebuildSellList(fish, now) ==
    IF fish = << >> THEN << >>
    ELSE LET f == Head(fish)
             rest == rebuildSellList(Tail(fish), now)
         IN  IF NotAdult(f, now) THEN rest
             ELSE << [ fishId |-> f.id, eggType |-> f.eggType,
                       price |-> sellPriceForEggType(f.eggType) ] >> \o rest

\* ShopUI._sync: the sell cards of the grid (first page of six)
PerPage == 6
SyncCards(tab, sell) ==
    IF tab = "sell" THEN SubSeq(sell, 1, Min(PerPage, Len(sell))) ELSE << >>

\* ShopUI.setCoins
SetCoins(c) == Max(0, c)

(***************************************************************************)
(* Decor                                                                   *)
(***************************************************************************)
\* Decor._syncEnv
DecorEnvOf(aq) ==
    [ xMin |-> aq.innerLeft + 100000, xMax |-> aq.innerRight - 100000,
      yMin |-> aq.innerBottom + 120000, yMax |-> aq.innerTop - 120000,
      sandTopY |-> SandTopY ]
DecorEnv(w) == DecorEnvOf(Aquarium(w))

DecorHalfH == 80000
DecorSpawnK == {500}             \* 0.15 + 0.70 * random, permille
DecorVx0 == {600}                \* (random * 2 - 1) * 0.12 per second
DecorVy0 == {-6500}              \* -0.55 - random * 0.25 per second

\* new Decor({...}) followed by _spawnDefault
NewDecorAt(decorType, env, top, k, vx0, vy0) ==
    [ decorType |-> decorType,
      x |-> Lerp(env.xMin, env.xMax, k),
      y |-> top - 50000,
      vx |-> vx0, vy |-> vy0, phase |-> 0,
      landed |-> FALSE, dragging |-> FALSE ]
NewDecor(decorType, w, k, vx0, vy0) ==
    NewDecorAt(decorType, DecorEnv(w), Aquarium(w).innerTop, k, vx0, vy0)

\* Decor.setEnvironment
DecorClampIn(d, env) ==
    [d EXCEPT !.x = Clamp(d.x, env.xMin, env.xMax),
              !.y = Clamp(d.y, env.yMin, env.yMax)]
DecorSetEnvironment(d, w) == DecorClampIn(d, DecorEnv(w))

\* Decor.update
DecorFallVx(d, dt, now) ==
    Frac(d.vx + 2 * Frac(Sin(Frac(now * 10 + d.phase, 9, 10)), dt, 1000),
         PowDt(7, 951, dt), 1000)
DecorFallVy(d, dt) == Frac(d.vy, PowDt(298, 988, dt), 1000) - 95 * dt
DecorFallTo(d, bx, y1, vy1, groundY) ==
    IF y1 <= groundY
    THEN [d EXCEPT !.x = bx.p, !.y = groundY, !.vx = Frac(bx.v, 18, 100),
                   !.vy = 0, !.landed = TRUE]
    ELSE [d EXCEPT !.x = bx.p, !.y = y1, !.vx = bx.v, !.vy = vy1]
DecorFallIn(d, dt, env, vx1, vy1) ==
    DecorFallTo(d, Wall(d.x + Mul(vx1, dt), vx1, env.xMin, env.xMax, 45),
                d.y + Mul(vy1, dt), vy1,
                env.sandTopY + Frac(DecorHalfH, 15, 100))
DecorUpdate(d, dt, now, w) ==
    IF d.dragging \/ d.landed THEN d
    ELSE DecorFallIn(d, dt, DecorEnv(w), DecorFallVx(d, dt, now), DecorFallVy(d, dt))

\* Decor.startDrag / endDrag
startDrag(d) == [d EXCEPT !.dragging = TRUE, !.landed = TRUE, !.vx = 0, !.vy = 0]
endDrag(d) == [d EXCEPT !.dragging = FALSE, !.landed = TRUE, !.vx = 0, !.vy = 0]
\* let dragState = null
NoDrag == [ pointerId |-> 0, decor |-> 0 ]
\* Decor.dragTo(x, y)
DragInto(d, x, y, env) ==
    [d EXCEPT !.x = Clamp(x, env.xMin, env.xMax),
              !.y = Clamp(y, env.yMin, env.sandTopY)]
dragTo(d, x, y, w) == DragInto(d, x, y, DecorEnv(w))

(***************************************************************************)
(* Sequence helpers                                                        *)
(***************************************************************************)
\* Array.prototype.splice(i, 1)
Splice(s, i) == SubSeq(s, 1, i - 1) \o SubSeq(s, i + 1, Len(s))
\* faulty variant: the search never finds the fish
FindFishNever(fish, id, i) == 0
\* Array.prototype.findIndex on fish ids; 0 when absent
RECURSIVE FindFish(_, _, _)
FindFish(fish, id, i) ==
    IF i > Len(fish) THEN 0
    ELSE IF fish[i].id = id THEN i
    ELSE FindFish(fish, id, i + 1)
\* the fishId signature returned by rebuildSellList
Sig(sell) == [i \in 1..Len(sell) |-> sell[i].fishId]
FishIds(fish) == {fish[i].id : i \in 1..Len(fish)}
SellIds(sell) == {sell[i].fishId : i \in 1..Len(sell)}

(***************************************************************************)
(* Hatching inside the egg pass of the loop                                *)
(***************************************************************************)
\* faulty variant: the flag is left as it was
EggHatchNoFlag(e) == e
\* Egg.update: this._didHatch = true
EggHatch(e) == [e EXCEPT !.didHatch = TRUE]

\* onHatch callback: eggs.splice(eggs.indexOf(egg), 1)
OnHatchRemove(es, i) == Splice(es, i)

\* for (const e of eggs) e.update(dt, t): the array iterator advances by
\* index over the live array, so a hatch that splices slot i makes the egg
\* that slides into slot i miss this frame's update
RECURSIVE EggPass(_, _, _, _, _, _, _)
\* e.update(dt, t) up to the hatch test
EggStep(e, dt, now, w) ==
    IF e.landed THEN EggIncubate(e, dt, now) ELSE EggFall(e, dt, now, w)
\* faulty variant: the counter is not advanced
NextFishIdSame(ctr) == ctr
\* spawnHatchFish: id: fishIdCounter++
NextFishId(ctr) == ctr + 1
\* the effects of the onHatch callback on the arrays and counters
HatchInto(st, i, e2, born, fishRec) ==
    [ eggs |-> OnHatchRemove([st.eggs EXCEPT ![i] = e2], i),
      fish |-> IF born THEN Append(st.fish, fishRec) ELSE st.fish,
      ctr |-> IF born THEN NextFishId(st.ctr) ELSE st.ctr,
      elog |-> [st.elog EXCEPT ![e2.uid] =
                   [calls |-> @.calls + 1, didHatch |-> e2.didHatch]],
      born |-> IF born THEN st.born \cup {st.ctr} ELSE st.born ]
\* onHatch(eggType, egg): spawnHatchFish at the egg's group position
OnHatch(st, i, e2, m, w, now, rnd) ==
    HatchInto(st, i, e2, SpecCount(e2.eggType) > 0,
              spawnHatchFish(st.ctr, e2.eggType, e2.gx, e2.gy, m, w, now, rnd))
EggVisit(i, st, e, e1, m, w, now, rs) ==
    IF e.landed /\ EggHatchDue(e1)
    THEN OnHatch(st, i, EggHatch(e1), m, w, now, rs[e.uid])
    ELSE [st EXCEPT !.eggs[i] = e1]
EggPass(i, st, dt, now, w, m, rs) ==
    IF i > Len(st.eggs) THEN st
    ELSE EggPass(i + 1,
                 EggVisit(i, st, st.eggs[i], EggStep(st.eggs[i], dt, now, w),
                          m, w, now, rs),
                 dt, now, w, m, rs)

(***************************************************************************)
(* Initial state: the page has loaded, resize() has run once, and          *)
(* PriorCycles basic eggs have already been bought, hatched and sold        *)
(***************************************************************************)
PriorCycles == 32
CycleCs == 2000
StartCoins == 30
\* nothing bought and nothing refused yet
NoBuys == [ buys |-> 0, nopes |-> 0, cost |-> 0 ]

InitGameAt(k, ws) ==
    /\ mode \in (IF k = 0 THEN {MODE_PROTO} ELSE {MODE_PROTO, MODE_FULL})
    /\ worldW \in ws
    /\ t = k * CycleCs
    /\ coins = StartCoins + k * sellPriceForEggType("basic")
    /\ fishIdCounter = 1 + k
    /\ eggSerial = k
    /\ fishEver = k
    /\ frames = 0
    /\ rebuilds = 0
    /\ shopOpen = FALSE
    /\ shopTab = "buy"
    /\ eggs = << >>
    /\ decors = << >>
    /\ hatchFish = << >>
    /\ sellList = << >>
    /\ lastSellSig = << >>
    /\ cards = << >>
    /\ eggLog = << >>
    /\ fishLog = << >>
    /\ feedOn = FALSE
    /\ flakes = << >>
    /\ flakeId = 1
    /\ flakeLog = << >>
    /\ turnLog = << >>
    /\ dragState = NoDrag
    /\ buyLog = NoBuys
InitGame(k) == InitGameAt(k, Widths)
InitAfter(k) ==
    InitGame(k) /\ school = NoSchool /\ shoal = << >> /\ growth = NoSample
\* two or three SchoolingFish constructed with the same schoolId
InitShoal ==
    /\ InitGame(0)
    /\ school = GetSchool(worldW)
    /\ \E n \in 2..MaxShoal : \E rnd \in [1..n -> FishRand] :
          shoal = [i \in 1..n |-> ShoalMember(worldW, rnd[i])]
    /\ growth = NoSample
\* the growth animation of one fish, first sampled when it is young
InitGrowth ==
    /\ InitGame(0) /\ school = NoSchool /\ shoal = << >>
    /\ \E e \in EggTypes, k \in 0..(GrowSamples \div 10) :
          growth = [ age |-> SampleAge(growthDurationForEggType(e), k),
                     growDur |-> growthDurationForEggType(e), s |-> NULL ]

(***************************************************************************)
(* Shop actions                                                            *)
(***************************************************************************)
\* launcher / close button: ShopUI.setOpen(!open)
ToggleShop ==
    /\ shopOpen' = ~shopOpen
    /\ cards' = SyncCards(shopTab, sellList)
    /\ UNCHANGED << growth, buyLog, schoolVars, feedVars, dragState >>
    /\ UNCHANGED << mode, worldW, t, frames, rebuilds, coins, shopTab, eggs,
                    decors, hatchFish, fishIdCounter, sellList, lastSellSig,
                    eggSerial, fishEver, eggLog, fishLog >>

\* buy / sell tab buttons
SetTab(tab) ==
    /\ shopOpen
    /\ tab # shopTab
    /\ shopTab' = tab
    /\ cards' = SyncCards(tab, sellList)
    /\ UNCHANGED << growth, buyLog, schoolVars, feedVars, dragState >>
    /\ UNCHANGED << mode, worldW, t, frames, rebuilds, coins, shopOpen, eggs,
                    decors, hatchFish, fishIdCounter, sellList, lastSellSig,
                    eggSerial, fishEver, eggLog, fishLog >>

\* the click handler of a buy card: cost = Math.max(0, item.price ?? 0)
BuyCost(price) == Max(0, price)
\* faulty variant: every click goes through
AffordableAlways(cost, c) == TRUE
\* if (cost > this.state.coins) { ... return; }
Affordable(cost, c) == ~(cost > c)
\* this._emit("buy", ...) after the purchase went through
BuyEmit(bl, price) == [bl EXCEPT !.buys = @ + 1, !.cost = BuyCost(price)]
\* cost > coins: the button reads "nope" and the handler returns
BuyNope(bl, price) == [bl EXCEPT !.nopes = @ + 1, !.cost = BuyCost(price)]
\* the prices on the cards of the buy tab
BuyPrices ==
    {EggPrice(e) : e \in EggTypes} \cup {DecorPrice(d) : d \in DecorTypes}

\* buy click on a card whose cost exceeds the coins: "nope", nothing else
BuyRefused(price) ==
    /\ shopOpen /\ shopTab = "buy"
    /\ ~Affordable(BuyCost(price), coins)
    /\ buyLog.nopes < MaxNopes
    /\ buyLog' = BuyNope(buyLog, price)
    /\ UNCHANGED << growth, schoolVars, feedVars, dragState >>
    /\ UNCHANGED << mode, worldW, t, frames, rebuilds, coins, shopOpen,
                    shopTab, eggs, decors, hatchFish, fishIdCounter, sellList,
                    lastSellSig, cards, eggSerial, fishEver, eggLog, fishLog >>

\* buy click on an egg card: addCoins(-cost), onBuyItem -> spawnEggFromPurchase
BuyEgg(eggType) ==
    /\ shopOpen /\ shopTab = "buy"
    /\ Cardinality(DOMAIN eggLog) < MaxEggs
    /\ Affordable(BuyCost(EggPrice(eggType)), coins)
    /\ coins' = SetCoins(coins - BuyCost(EggPrice(eggType)))
    /\ eggSerial' = eggSerial + 1
    /\ \E k \in EggSpawnK, drop \in EggSpawnDrop, vx0 \in EggVx0,
          vy0 \in EggVy0, ph \in EggPhase0, hAt \in EggHatchAt :
          eggs' = Append(eggs, NewEgg(eggSerial + 1, eggType, worldW, k, drop,
                                      vx0, vy0, ph, hAt))
    /\ eggLog' = eggLog @@ ((eggSerial + 1) :> [calls |-> 0, didHatch |-> FALSE])
    /\ cards' = SyncCards(shopTab, sellList)
    /\ buyLog' = BuyEmit(buyLog, EggPrice(eggType))
    /\ UNCHANGED << growth, schoolVars, feedVars, dragState >>
    /\ UNCHANGED << mode, worldW, t, frames, rebuilds, shopOpen, shopTab,
                    decors, hatchFish, fishIdCounter, sellList, lastSellSig,
                    fishEver, fishLog >>

\* buy click on a decor card: addCoins(-cost), onBuyItem -> spawnDecorFromPurchase
BuyDecorUpTo(decorType, most) ==
    /\ shopOpen /\ shopTab = "buy"
    /\ Len(decors) < most
    /\ Affordable(BuyCost(DecorPrice(decorType)), coins)
    /\ coins' = SetCoins(coins - BuyCost(DecorPrice(decorType)))
    /\ \E k \in DecorSpawnK, vx0 \in DecorVx0, vy0 \in DecorVy0 :
          decors' = Append(decors, NewDecor(decorType, worldW, k, vx0, vy0))
    /\ cards' = SyncCards(shopTab, sellList)
    /\ buyLog' = BuyEmit(buyLog, DecorPrice(decorType))
    /\ UNCHANGED << growth, schoolVars, feedVars, dragState >>
    /\ UNCHANGED << mode, worldW, t, frames, rebuilds, shopOpen, shopTab, eggs,
                    hatchFish, fishIdCounter, sellList, lastSellSig, eggSerial,
                    fishEver, eggLog, fishLog >>
BuyDecor(decorType) == BuyDecorUpTo(decorType, MaxDecors)

\* faulty variant: the record stays in the array
OnSellKeep(fish, idx) == fish
\* onSellItem: hatchFish.splice(idx, 1)
OnSellRemove(fish, idx) == Splice(fish, idx)

\* the click handler of a sell card for item it: addCoins(gain) first, then
\* onSellItem(item), which returns early when the fish is not in hatchFish
SellEffects(it, sell0, cards0) ==
    LET idx == FindFish(hatchFish, it.fishId, 1)
        fish1 == OnSellRemove(hatchFish, idx)
        sell1 == rebuildSellList(fish1, t)
    IN  /\ coins' = SetCoins(coins + Max(0, it.price))
        /\ fishLog' = [fishLog EXCEPT ![it.fishId] =
                          [credits |-> @.credits + 1,
                           sold |-> @.sold \/ idx > 0,
                           movedAt |-> @.movedAt]]
        /\ IF idx > 0
           THEN /\ hatchFish' = fish1
                /\ sellList' = sell1
                /\ lastSellSig' = Sig(sell1)
                /\ cards' = SyncCards("sell", sell1)
           ELSE /\ hatchFish' = hatchFish
                /\ sellList' = sell0
                /\ lastSellSig' = lastSellSig
                /\ cards' = SyncCards("sell", sell0)

\* click on the sell button of the i-th card of the grid
SellClick(i) ==
    /\ shopOpen /\ shopTab = "sell"
    /\ i \in 1..Len(cards)
    /\ SellEffects(cards[i], sellList, cards)
    /\ UNCHANGED << growth, buyLog, schoolVars, feedVars, dragState >>
    /\ UNCHANGED << mode, worldW, t, frames, rebuilds, shopOpen, shopTab, eggs,
                    decors, fishIdCounter, eggSerial, fishEver, eggLog >>

\* pointerdown on the canvas over fish number i while the sell tab is open:
\* rebuildSellList(now), then shopUI.sellById(item.id) clicks that card
ClickToSell(i) ==
    /\ shopOpen /\ shopTab = "sell"
    /\ i \in 1..Len(hatchFish)
    /\ hatchFish[i].rootScale # NULL          \* the ray needs a mesh to hit
    /\ LET sell1 == rebuildSellList(hatchFish, t)
           shown == SyncCards("sell", sell1)
           hit == {j \in 1..Len(shown) : shown[j].fishId = hatchFish[i].id}
       IN  IF hit = {}
           THEN /\ sellList' = sell1
                /\ cards' = IF hatchFish[i].id \in SellIds(sell1) THEN shown
                            ELSE cards
                /\ UNCHANGED << coins, hatchFish, lastSellSig, fishLog >>
           ELSE SellEffects(shown[CHOOSE j \in hit : TRUE], sell1, shown)
    /\ UNCHANGED << growth, buyLog, schoolVars, feedVars, dragState >>
    /\ UNCHANGED << mode, worldW, t, frames, rebuilds, shopOpen, shopTab, eggs,
                    decors, fishIdCounter, eggSerial, fishEver, eggLog >>

(***************************************************************************)
(* Feed: food flakes.  Lengths in micro units, speeds in micro units per   *)
(* centisecond, lifetimes and holds in centiseconds.                       *)
(***************************************************************************)
\* dropAt: const count = 14
FlakeCount == 14
\* Math.random() inputs of Feed.dropAt and of Feed.update
DropRand == [ jit : {1}, life : {3} ]
FeedRand == [ hold : {65, 100}, vy : {-1300}, vx : {100} ]
\* where the pointer can be pressed, as world x
DropXs == {-1700000, 0}

\* Feed.dropAt: the i-th flake of a cluster
NewFlake(id, i, cx, top, rnd) ==
    [ id |-> id,
      x |-> cx + rnd.jit * (i - 7) * 8000,
      y |-> top + 350000 + (i % 3) * 40000,
      vx |-> rnd.jit * ((i % 5) - 2) * 100,
      vy |-> -7500 - (i % 2) * 2500,
      state |-> "drop", hold |-> 0,
      life |-> 900 + ((i * rnd.life) % 7) * 100, surfaceY |-> top ]
DropIn(fl, id0, cx, top, rnd) ==
    fl \o [i \in 1..FlakeCount |-> NewFlake(id0 + i - 1, i, cx, top, rnd)]
dropAt(fl, id0, x, a, rnd) ==
    DropIn(fl, id0, Clamp(x, a.innerLeft + 50000, a.innerRight - 50000),
           a.innerTop, rnd)

\* Feed.update for one flake; gone names the reason it leaves the list
FlakeKeep(f, a) ==
    [ f |-> [f EXCEPT !.x = Clamp(f.x, a.innerLeft + 30000, a.innerRight - 30000)],
      gone |-> "" ]
FlakeGone(f, why) == [ f |-> f, gone |-> why ]
FlakeDrop(f, dt, a, fr) ==
    IF f.y + f.vy * dt <= a.innerTop
    THEN FlakeKeep([f EXCEPT !.x = f.x + f.vx * dt, !.y = a.innerTop,
                             !.state = "float", !.hold = fr.hold,
                             !.vy = 0, !.vx = fr.vx], a)
    ELSE FlakeKeep([f EXCEPT !.x = f.x + f.vx * dt, !.y = f.y + f.vy * dt], a)
FlakeFloat(f, dt, a, fr) ==
    IF f.hold - dt <= 0
    THEN FlakeKeep([f EXCEPT !.x = f.x + f.vx * dt,
                             !.y = a.innerTop + Frac(4000, Sin(Frac(f.id * 700 + 9000 - f.life * 10, 32, 10)), 1000),
                             !.hold = f.hold - dt, !.state = "sink",
                             !.vy = fr.vy, !.vx = fr.vx], a)
    ELSE FlakeKeep([f EXCEPT !.x = f.x + f.vx * dt,
                             !.y = a.innerTop + Frac(4000, Sin(Frac(f.id * 700 + 9000 - f.life * 10, 32, 10)), 1000),
                             !.hold = f.hold - dt], a)
FlakeSink(f, dt, a) ==
    IF f.y + f.vy * dt <= SandTopY + 30000
    THEN FlakeGone([f EXCEPT !.x = f.x + f.vx * dt, !.y = f.y + f.vy * dt,
                             !.vx = Frac(f.vx, PowDt(985, 1000, dt), 1000),
                             !.vy = Frac(f.vy, PowDt(995, 1000, dt), 1000)],
                   "floor")
    ELSE FlakeKeep([f EXCEPT !.x = f.x + f.vx * dt, !.y = f.y + f.vy * dt,
                             !.vx = Frac(f.vx, PowDt(985, 1000, dt), 1000),
                             !.vy = Frac(f.vy, PowDt(995, 1000, dt), 1000)], a)
FlakePhase(f, dt, a, fr) ==
    CASE f.state = "drop" -> FlakeDrop(f, dt, a, fr)
      [] f.state = "float" -> FlakeFloat(f, dt, a, fr)
      [] OTHER -> FlakeSink(f, dt, a)
\* faulty variant: the lifetime is counted down and never looked at
FlakeStepForever(f, dt, a, fr) ==
    FlakePhase([f EXCEPT !.life = f.life - dt], dt, a, fr)
\* Feed.update for one flake: the lifetime first, then the phase
FlakeStep(f, dt, a, fr) ==
    IF f.life - dt <= 0 THEN FlakeGone([f EXCEPT !.life = f.life - dt], "life")
    ELSE FlakePhase([f EXCEPT !.life = f.life - dt], dt, a, fr)
\* what is recorded of a flake that leaves the list: why, and how it was
FlakeLeft(f, why) == [ why |-> why, life |-> f.life, y |-> f.y, state |-> f.state ]
\* the flakes that stay, in list order, and the record of those that left
FlakesKept(stepped) ==
    [ flakes |-> [i \in 1..Len(SelectSeq(stepped, LAMBDA s : s.gone = "")) |->
                     SelectSeq(stepped, LAMBDA s : s.gone = "")[i].f],
      gone |-> [id \in { stepped[i].f.id : i \in { j \in 1..Len(stepped) :
                                                     stepped[j].gone # "" } } |->
                  FlakeLeft((CHOOSE s \in { stepped[i] : i \in 1..Len(stepped) } :
                                s.f.id = id).f,
                            (CHOOSE s \in { stepped[i] : i \in 1..Len(stepped) } :
                                s.f.id = id).gone)] ]
\* Feed.update(dt, t); dt = 0 returns at once
FeedUpdate(fl, dt, a, fr) ==
    IF dt = 0 THEN [ flakes |-> fl, gone |-> << >> ]
    ELSE FlakesKept([i \in 1..Len(fl) |-> FlakeStep(fl[i], dt, a, fr)])

\* squared distance in milli units
Dist2(f, x, y) ==
    ((f.x - x) \div 1000) * ((f.x - x) \div 1000)
      + ((f.y - y) \div 1000) * ((f.y - y) \div 1000)
\* Feed.getNearestFlake(x, y): index of the first closest flake, 0 for null
getNearestFlake(fl, x, y) ==
    IF fl = << >> THEN 0
    ELSE CHOOSE i \in 1..Len(fl) :
           /\ \A j \in 1..Len(fl) : Dist2(fl[i], x, y) <= Dist2(fl[j], x, y)
           /\ \A j \in 1..(i - 1) : Dist2(fl[j], x, y) > Dist2(fl[i], x, y)
\* Feed.tryEatAt(x, y, r): index of the flake it removes, 0 when none
EatHits(fl, x, y, r) ==
    { i \in 1..Len(fl) : Dist2(fl[i], x, y) <= (r \div 1000) * (r \div 1000) }
EatIndex(hits) == IF hits = {} THEN 0 ELSE CHOOSE i \in hits : \A j \in hits : i <= j
tryEatAt(fl, x, y, r) == EatIndex(EatHits(fl, x, y, r))
\* Feed._removeIndex(i)
removeIndex(fl, i) == IF i = 0 THEN fl ELSE Splice(fl, i)

\* loop: feed attraction of a fish that is not a schooling fish
AttractTo(f, dx, dy, dt) ==
    [f EXCEPT !.dir = IF HasDir(f.cls) /\ Abs(dx) > 40000
                      THEN (IF dx >= 0 THEN 1 ELSE -1) ELSE f.dir,
              !.vx = IF HasV(f.cls)
                     THEN f.vx + Frac(Frac(Clamp(dx, -600000, 600000), 75, 100), dt, 10000)
                     ELSE f.vx,
              !.vy = IF HasV(f.cls)
                     THEN f.vy + Frac(Frac(Clamp(dy, -600000, 600000), 75, 100), dt, 10000)
                     ELSE f.vy,
              !.y = f.y + Frac(Frac(Clamp(dy, -250000, 250000), 55, 100), dt, 100)]
\* a schooling fish hands the flake to its school as the leader's target
Attract(f, on, fl, k, dt) ==
    IF ~on \/ k = 0 \/ f.cls = "school" THEN f
    ELSE AttractTo(f, fl[k].x - f.x, fl[k].y - f.y, dt)

\* the record of direction changes of one fish, as seen at the end of each
\* frame: when the last one was, the smallest time between two successive
\* ones, the fish's turn cooldown
NoTurns(f) == [ at |-> NULL, gap |-> NULL, cd |-> Wave(f.cls).cd ]
TurnAt(e, now) ==
    [e EXCEPT !.at = now,
              !.gap = IF e.at = NULL THEN e.gap
                      ELSE IF e.gap = NULL THEN now - e.at
                      ELSE Min(e.gap, now - e.at)]
Patrols(cls) == cls \in {"common", "trop", "orn", "reef", "deep", "myth"}
TurnEntry(tlog, f) == IF f.id \in DOMAIN tlog THEN tlog[f.id] ELSE NoTurns(f)
TurnNote(tlog, f0, f2, now) ==
    IF ~Patrols(f0.cls) \/ f0.dir = f2.dir THEN tlog
    ELSE [id \in (DOMAIN tlog) \cup {f0.id} |->
            IF id = f0.id THEN TurnAt(TurnEntry(tlog, f0), now) ELSE tlog[id]]

\* loop: the motion pass over hatchFish, one fish after the other
FishSkips(f, now) == ~f.liftDone \/ (f.settleUntil # NULL /\ now < f.settleUntil)
FishAte(st, i, f0, f1, f2, k, now) ==
    [ fish |-> [st.fish EXCEPT ![i] = f2],
      moved |-> st.moved \cup {f0.id},
      flakes |-> removeIndex(st.flakes, k),
      gone |-> IF k = 0 THEN st.gone
               ELSE st.gone @@ (st.flakes[k].id :> FlakeLeft(st.flakes[k], "eaten")),
      turns |-> TurnNote(st.turns, f0, f2, now) ]
FishEats(st, i, f0, f1, f2, on, now) ==
    FishAte(st, i, f0, f1, f2,
            IF on THEN tryEatAt(st.flakes, f2.gx, f2.gy, 160000) ELSE 0, now)
FishFed(st, i, f0, f1, on, dt, now, w, sd) ==
    FishEats(st, i, f0, f1, FishMove(f1, dt, now, w, sd), on, now)
FishVisit(st, i, on, dt, now, w, sd) ==
    IF FishSkips(st.fish[i], now) THEN st
    ELSE FishFed(st, i, st.fish[i],
                 Attract(st.fish[i], on, st.flakes,
                         IF on THEN getNearestFlake(st.flakes, st.fish[i].gx,
                                                    st.fish[i].gy)
                         ELSE 0, dt),
                 on, dt, now, w, sd)
RECURSIVE FishPass(_, _, _, _, _, _, _)
FishPass(i, st, on, dt, now, w, sd) ==
    IF i > Len(st.fish) THEN st
    ELSE FishPass(i + 1, FishVisit(st, i, on, dt, now, w, sd), on, dt, now, w, sd)

(***************************************************************************)
(* Frame loop                                                              *)
(***************************************************************************)
DtSet == {999, 30000}
DtFine == {1, 999, 30000}
SteerSet == {-1, 1}
SpawnRand == [ sgn : {-1, 1}, spec : {1} ]

\* loop(): one animation frame with clock delta dt
DueUids(dt) ==
    { eggs[i].uid : i \in { j \in 1..Len(eggs) :
                              /\ eggs[j].landed /\ ~eggs[j].didHatch
                              /\ eggs[j].age + dt >= eggs[j].hatchAt } }
\* the steering input matters once a schooling fish swims
Steers ==
    IF \E i \in 1..Len(hatchFish) :
          hatchFish[i].cls = "school" /\ hatchFish[i].liftDone
    THEN SteerSet ELSE {1}

\* loop: the sell list refresh, every 0.25 s while the sell tab is open
LoopCommit(now, st, grown, sell1, tabOn) ==
    /\ t' = now
    /\ eggs' = st.eggs
    /\ hatchFish' = grown
    /\ fishIdCounter' = st.ctr
    /\ fishEver' = fishEver + Cardinality(st.born)
    /\ eggLog' = st.elog
    /\ fishLog' = [id \in (DOMAIN fishLog) \cup st.born |->
                      IF id \in DOMAIN fishLog
                      THEN [fishLog[id] EXCEPT
                               !.movedAt = IF id \in st.moved THEN now ELSE @]
                      ELSE [credits |-> 0, sold |-> FALSE, movedAt |-> NULL]]
    /\ sellList' = IF tabOn THEN sell1 ELSE sellList
    /\ lastSellSig' = IF tabOn THEN Sig(sell1) ELSE lastSellSig
    /\ cards' = IF tabOn /\ Sig(sell1) # lastSellSig
                THEN SyncCards(shopTab, sell1) ELSE cards
\* faulty variant: the sell list is rebuilt at the start of the frame, from
\* the fish and the clock as they were before the frame's updates
LoopSellEarly(now, st, grown) ==
    LoopCommit(now, st, grown, rebuildSellList(hatchFish, t),
               shopOpen /\ shopTab = "sell")
\* loop: the sell list is rebuilt last, from the fish as growth and lift
\* left them
LoopSell(now, st, grown) ==
    LoopCommit(now, st, grown, rebuildSellList(grown, now),
               shopOpen /\ shopTab = "sell")
\* loop: fish motion, then growth, then the hatch lift
LoopFed(now, st, mv) ==
    /\ LoopSell(now, [moved |-> mv.moved] @@ st,
                [i \in 1..Len(mv.fish) |->
                    FishLift(FishGrow(mv.fish[i], now), now, worldW)])
    /\ flakes' = mv.flakes
    /\ flakeLog' = flakeLog @@ mv.gone
    /\ turnLog' = mv.turns
LoopMoved(dt, now, st, sd, fu) ==
    LoopFed(now, st,
            FishPass(1, [ fish |-> st.fish, moved |-> {}, flakes |-> fu.flakes,
                          gone |-> fu.gone, turns |-> turnLog ],
                     feedOn, dt, now, worldW, sd))
\* loop: feed.update, then the fish
LoopFish(dt, now, st, sd, fr) ==
    LoopMoved(dt, now, st, sd, FeedUpdate(flakes, dt, Aquarium(worldW), fr))
\* loop: eggs
LoopEggs(dt, now, rs, sd, fr) ==
    LoopFish(dt, now,
             EggPass(1, [ eggs |-> eggs, fish |-> hatchFish,
                          ctr |-> fishIdCounter, elog |-> eggLog, born |-> {} ],
                     dt, now, worldW, mode, rs),
             sd, fr)

\* the draws of Feed.update matter once there are flakes
FeedDraws ==
    IF flakes = << >> THEN { CHOOSE fr \in FeedRand : TRUE } ELSE FeedRand
\* loop(): one animation frame with clock delta dt
Frame(dt) ==
    /\ frames' = frames + 1
    /\ decors' = [i \in 1..Len(decors) |->
                     DecorUpdate(decors[i], dt, t + dt, worldW)]
    /\ \E rs \in [DueUids(dt) -> SpawnRand], sd \in Steers, fr \in FeedDraws :
          LoopEggs(dt, t + dt, rs, sd, fr)
    /\ UNCHANGED << growth, buyLog, schoolVars, feedOn, flakeId, dragState >>
    /\ UNCHANGED << mode, worldW, rebuilds, coins, shopOpen, shopTab, eggSerial >>
\* a frame of any length, while the model's frame budget lasts
Loop(dt) == frames < MaxFrames /\ Frame(dt)
\* a frame of the fixed step, while the step budget lasts
FixedStep == frames < MaxSteps /\ Frame(StepCs)

(***************************************************************************)
(* Mode toggle and resize                                                  *)
(***************************************************************************)
\* faulty variant: the snapshot is not restored onto the new egg
RebuildEggFresh(e, w, vx0, vy0, ph, hAt) ==
    EggSetEnvironment(NewEggAt(e.uid, e.eggType, e.gx, e.gy, vx0, vy0, ph, hAt), w)
\* rebuildEggVisualsForMode, for one egg: new Egg at the snapshot position,
\* every field restored from the snapshot, then setEnvironment
RebuildEgg(e, w, vx0, vy0, ph, hAt) ==
    LET neu == [ uid |-> e.uid, eggType |-> e.eggType,
                 x |-> e.gx, y |-> e.gy, gx |-> e.gx, gy |-> e.gy,
                 vx |-> vx0, vy |-> vy0, phase |-> ph,
                 landed |-> FALSE, age |-> 0, hatchAt |-> hAt,
                 didHatch |-> FALSE ]
        res == [ neu EXCEPT !.x = e.x, !.y = e.y, !.vx = e.vx, !.vy = e.vy,
                            !.phase = e.phase, !.landed = e.landed,
                            !.age = e.age, !.hatchAt = e.hatchAt,
                            !.didHatch = e.didHatch ]
    IN  EggSetEnvironment(res, w)

\* rebuildScene() for mode m and width w: eggs, fish and decor rebuilt, then
\* setEnvironment / setBounds on everything
RebuildOne(f, m, w, now, rnd, twice) ==
    IF twice
    THEN retargetGrowthForMode(FishSetBounds(RebuildFish(f, m, w, now, rnd), w), now)
    ELSE FishSetBounds(RebuildFish(f, m, w, now, rnd), w)
RebuildScene(m, w, rnd, twice) ==
    /\ eggs' = [i \in 1..Len(eggs) |->
                   EggSetEnvironment(
                       RebuildEgg(eggs[i], w, 0, -75000, 0, 750), w)]
    /\ decors' = [i \in 1..Len(decors) |-> DecorSetEnvironment(decors[i], w)]
    /\ hatchFish' = [i \in 1..Len(hatchFish) |->
                        RebuildOne(hatchFish[i], m, w, t, rnd[i], twice)]
    /\ cards' = SyncCards(shopTab, sellList)

\* "full mode" checkbox change handler
ToggleMode ==
    /\ rebuilds < MaxRebuilds
    /\ rebuilds' = rebuilds + 1
    /\ mode' = IF mode = MODE_PROTO THEN MODE_FULL ELSE MODE_PROTO
    /\ \E rnd \in [1..Len(hatchFish) -> FishRand] :
          RebuildScene(mode', worldW, rnd, TRUE)
    /\ UNCHANGED << growth, buyLog, schoolVars, feedVars, dragState >>
    /\ UNCHANGED << worldW, t, frames, coins, shopOpen, shopTab, fishIdCounter,
                    sellList, lastSellSig, eggSerial, fishEver, eggLog, fishLog >>

\* window resize handler: the new aspect ratio gives world width w
Resize(w) ==
    /\ rebuilds < MaxRebuilds
    /\ rebuilds' = rebuilds + 1
    /\ worldW' = w
    /\ \E rnd \in [1..Len(hatchFish) -> FishRand] :
          RebuildScene(mode, w, rnd, FALSE)
    /\ UNCHANGED << growth, buyLog, schoolVars, feedVars, dragState >>
    /\ UNCHANGED << mode, t, frames, coins, shopOpen, shopTab, fishIdCounter,
                    sellList, lastSellSig, eggSerial, fishEver, eggLog, fishLog >>

\* GLTFLoader completion callback of the class instance of fish i: the
\* model arrives with the given box, at any time after the constructor ran
ModelLoaded(i, shape) ==
    /\ i \in 1..Len(hatchFish)
    /\ hatchFish[i].cls # "prim"
    /\ hatchFish[i].rootScale = NULL
    /\ hatchFish' = [hatchFish EXCEPT ![i] = OnModelLoad(@, worldW, shape)]
    /\ UNCHANGED << growth, buyLog, schoolVars, feedVars, dragState >>
    /\ UNCHANGED << mode, worldW, t, frames, rebuilds, coins, shopOpen, shopTab,
                    eggs, decors, fishIdCounter, sellList, lastSellSig, cards,
                    eggSerial, fishEver, eggLog, fishLog >>

\* dragEnabled(): not while feeding, not on the shop's sell tab
dragEnabled == ~feedOn /\ ~(shopOpen /\ shopTab = "sell")
\* where the pointer can be moved to, as world x and y
DragXs == {-2000000, 0, 500000}
DragYs == {-900000, -560000, 300000}
\* the pointers of the page: the mouse, or two fingers
MousePointers == {1}
Pointers == {1, 2}
\* canvas pointerdown of pointer p with decoration i under it; the pointer
\* that holds the drag is down already and cannot go down again
DecorPointerDown(p, i) ==
    /\ dragEnabled
    /\ p # dragState.pointerId
    /\ i \in 1..Len(decors)
    /\ dragState' = [ pointerId |-> p, decor |-> i ]
    /\ decors' = [decors EXCEPT ![i] = startDrag(decors[i])]
    /\ UNCHANGED << mode, worldW, t, frames, rebuilds, coins, shopOpen, shopTab,
                    eggs, hatchFish, fishIdCounter, sellList, lastSellSig,
                    cards, eggSerial, fishEver, eggLog, fishLog, growth, buyLog,
                    schoolVars, feedVars >>
\* window pointermove of pointer p while a drag is on: the pointer plus the
\* grab offset is (x, y)
DecorPointerMove(p, x, y) ==
    /\ dragState # NoDrag
    /\ p = dragState.pointerId
    /\ decors' = [decors EXCEPT ![dragState.decor] =
                      dragTo(decors[dragState.decor], x, y, worldW)]
    /\ UNCHANGED << mode, worldW, t, frames, rebuilds, coins, shopOpen, shopTab,
                    eggs, hatchFish, fishIdCounter, sellList, lastSellSig,
                    cards, eggSerial, fishEver, eggLog, fishLog, growth, buyLog,
                    schoolVars, feedVars, dragState >>
\* window pointerup / pointercancel of pointer p
DecorPointerUp(p) ==
    /\ dragState # NoDrag
    /\ p = dragState.pointerId
    /\ decors' = [decors EXCEPT ![dragState.decor] =
                      endDrag(decors[dragState.decor])]
    /\ dragState' = NoDrag
    /\ UNCHANGED << mode, worldW, t, frames, rebuilds, coins, shopOpen, shopTab,
                    eggs, hatchFish, fishIdCounter, sellList, lastSellSig,
                    cards, eggSerial, fishEver, eggLog, fishLog, growth, buyLog,
                    schoolVars, feedVars >>

\* the feed button: feed.setOn(!feed._on)
ToggleFeed ==
    /\ feedOn' = ~feedOn
    /\ UNCHANGED << mode, worldW, t, frames, rebuilds, coins, shopOpen, shopTab,
                    eggs, decors, hatchFish, fishIdCounter, sellList,
                    lastSellSig, cards, eggSerial, fishEver, eggLog, fishLog,
                    growth, buyLog, schoolVars, flakes, flakeId, flakeLog, turnLog, dragState >>
\* canvas pointerdown at world x while feeding: feed.onPointerDown; a
\* pointer outside the water drops nothing
DropFlakes(x) ==
    /\ feedOn /\ ~shopOpen
    /\ flakeId <= (MaxDrops - 1) * FlakeCount + 1
    /\ x >= Aquarium(worldW).innerLeft /\ x <= Aquarium(worldW).innerRight
    /\ \E rnd \in DropRand :
          flakes' = dropAt(flakes, flakeId, x, Aquarium(worldW), rnd)
    /\ flakeId' = flakeId + FlakeCount
    /\ UNCHANGED << mode, worldW, t, frames, rebuilds, coins, shopOpen, shopTab,
                    eggs, decors, hatchFish, fishIdCounter, sellList,
                    lastSellSig, cards, eggSerial, fishEver, eggLog, fishLog,
                    growth, buyLog, schoolVars, feedOn, flakeLog, turnLog, dragState >>
\* one simulation frame of a host that calls update(dt, t) on each member
\* of the shoal
ShoalDt == {2, 50}
ShoalStore(st) == school' = st.school /\ shoal' = st.shoal
ShoalFrame(dt) ==
    /\ frames < MaxShoalFrames
    /\ frames' = frames + 1
    /\ t' = t + dt
    /\ \E rnd \in SchoolRand :
          ShoalStore(ShoalPass(1, [school |-> school, shoal |-> shoal],
                               dt, t + dt, worldW, rnd))
    /\ UNCHANGED << mode, worldW, rebuilds, coins, shopOpen, shopTab, eggs,
                    decors, hatchFish, fishIdCounter, sellList, lastSellSig,
                    cards, eggSerial, fishEver, eggLog, fishLog, feedVars,
                    dragState, growth, buyLog >>
\* SchoolingFish.setBounds(w, h, aquarium) on each member after a resize
SchoolSetBounds(sc, w) ==
    [sc EXCEPT !.w = w, !.needsRespawn = TRUE, !.leaderHalfH = 80,
               !.topBuffer = 140]
ShoalResize(w) ==
    /\ rebuilds < MaxRebuilds
    /\ w # worldW
    /\ rebuilds' = rebuilds + 1
    /\ worldW' = w
    /\ shoal' = [i \in 1..Len(shoal) |-> FishSetBounds(shoal[i], w)]
    /\ school' = SchoolSetBounds(school, w)
    /\ UNCHANGED << mode, t, frames, coins, shopOpen, shopTab, eggs, decors,
                    hatchFish, fishIdCounter, sellList, lastSellSig, cards,
                    eggSerial, fishEver, eggLog, fishLog, feedVars, dragState,
                    growth, buyLog >>

Next ==
    \/ \E dt \in DtSet : Loop(dt)
    \/ ToggleShop
    \/ \E tab \in {"buy", "sell"} : SetTab(tab)
    \/ \E eggType \in EggTypes : BuyEgg(eggType)
    \/ \E i \in 1..PerPage : SellClick(i)
    \/ \E i \in 1..MaxEggs : ClickToSell(i)
    \/ ToggleMode
    \/ \E w \in Widths : Resize(w)

Init == InitAfter(0)

Spec == Init /\ [][Next]_vars

\* one egg or fish in the tank at a time, every egg type affordable
OneAtATime == eggs = << >> /\ hatchFish = << >>
NextTypes ==
    \/ \E dt \in DtSet : Loop(dt)
    \/ ToggleShop
    \/ \E tab \in {"buy", "sell"} : SetTab(tab)
    \/ \E eggType \in EggTypes : OneAtATime /\ BuyEgg(eggType)
    \/ \E i \in 1..PerPage : SellClick(i)
    \/ \E i \in 1..MaxEggs : ClickToSell(i)
    \/ ToggleMode
    \/ \E w \in Widths : Resize(w)
SpecTypes == InitAfter(PriorCycles) /\ [][NextTypes]_vars

\* models that finish loading while the game runs, in tanks up to six
\* times as wide as high
LoadWidths == {3600000, 13200000}
NextLoad ==
    \/ \E dt \in DtSet : Loop(dt)
    \/ ToggleShop
    \/ \E eggType \in EggTypes : OneAtATime /\ BuyEgg(eggType)
    \/ ToggleMode
    \/ \E w \in LoadWidths : Resize(w)
    \/ \E i \in 1..MaxEggs, shape \in ModelShapes : ModelLoaded(i, shape)
InitLoad ==
    /\ InitGameAt(PriorCycles, LoadWidths)
    /\ school = NoSchool /\ shoal = << >> /\ growth = NoSample
SpecLoad == InitLoad /\ [][NextLoad]_vars

\* short frames, one egg or fish at a time
NextFine ==
    \/ \E dt \in DtFine : Loop(dt)
    \/ ToggleShop
    \/ \E tab \in {"buy", "sell"} : SetTab(tab)
    \/ \E eggType \in EggTypes : OneAtATime /\ BuyEgg(eggType)
    \/ \E i \in 1..PerPage : SellClick(i)
    \/ \E i \in 1..MaxEggs : ClickToSell(i)
    \/ ToggleMode
    \/ \E w \in Widths : Resize(w)
SpecFine == InitAfter(0) /\ [][NextFine]_vars

\* decorations only
NextDecor ==
    \/ \E dt \in DtFine : Loop(dt)
    \/ ToggleShop
    \/ \E tab \in {"buy", "sell"} : SetTab(tab)
    \/ \E decorType \in DecorTypes : BuyDecor(decorType)
    \/ \E p \in MousePointers, i \in 1..MaxDecors : DecorPointerDown(p, i)
    \/ \E p \in MousePointers, x \in DragXs, y \in DragYs :
          DecorPointerMove(p, x, y)
    \/ \E p \in MousePointers : DecorPointerUp(p)
    \/ ToggleMode
    \/ \E w \in Widths : Resize(w)
SpecDecor == InitAfter(0) /\ [][NextDecor]_vars

\* two decorations and two pointers (two fingers on a touch screen)
MaxDragDecors == 2
DtDrag == {30000}
NextDrag ==
    \/ \E dt \in DtDrag : Loop(dt)
    \/ ToggleShop
    \/ \E decorType \in {"seaweed", "rock"} :
          BuyDecorUpTo(decorType, MaxDragDecors)
    \/ \E p \in Pointers, i \in 1..MaxDragDecors : DecorPointerDown(p, i)
    \/ \E p \in Pointers, x \in DragXs, y \in DragYs : DecorPointerMove(p, x, y)
    \/ \E p \in Pointers : DecorPointerUp(p)
SpecDrag == InitAfter(PriorCycles) /\ [][NextDrag]_vars

\* frames that keep ticking: one egg bought before the first frame, frames
\* of half a minute, and a frame budget long enough for the slowest egg
LiveFrames == 16
DtLive == {3000}
LiveTick == \E dt \in DtLive : frames < LiveFrames /\ Frame(dt)
NextLive ==
    \/ LiveTick
    \/ ToggleShop
    \/ \E tab \in {"buy", "sell"} : SetTab(tab)
    \/ \E eggType \in EggTypes : frames = 0 /\ OneAtATime /\ BuyEgg(eggType)
    \/ \E i \in 1..PerPage : SellClick(i)
    \/ ToggleMode
    \/ \E w \in Widths : Resize(w)
\* requestAnimationFrame(loop) is called at the end of every frame: the
\* next frame always comes.  The steps of NextLive that advance the frame
\* counter are those of LiveTick, and LiveTick is enabled exactly while the
\* frame budget lasts.
FrameTicks == frames < LiveFrames /\ frames' = frames + 1
SpecLive == InitAfter(PriorCycles) /\ [][NextLive]_vars /\ WF_frames(FrameTicks)

\* the shop: every card of the buy tab clicked with whatever coins there are
DtShop == {30000}
NextShop ==
    \/ \E dt \in DtShop : Loop(dt)
    \/ ToggleShop
    \/ \E tab \in {"buy", "sell"} : SetTab(tab)
    \/ \E eggType \in EggTypes : OneAtATime /\ BuyEgg(eggType)
    \/ \E decorType \in DecorTypes : BuyDecor(decorType)
    \/ \E price \in BuyPrices : BuyRefused(price)
    \/ \E i \in 1..PerPage : SellClick(i)
SpecShop == InitAfter(0) /\ [][NextShop]_vars

\* one egg driven by frames of the fixed step
NextSteps ==
    \/ FixedStep
    \/ ToggleShop
    \/ \E eggType \in {"basic", "schooling"} : eggSerial = 0 /\ BuyEgg(eggType)
SpecSteps == InitAfter(0) /\ [][NextSteps]_vars

\* the clock delta: frames of 0.01 s while flakes are in the water, long
\* frames otherwise
DtFeed == IF flakes # << >> THEN {1} ELSE {30000}
FeedFrame(dt) == frames < MaxFeedFrames /\ Frame(dt)
\* flakes are dropped for a fish that swims
Swimming ==
    \E i \in 1..Len(hatchFish) : ~FishSkips(hatchFish[i], t)
\* one basic egg, the feed button and the flakes
NextFeed ==
    \/ \E dt \in DtFeed : FeedFrame(dt)
    \/ ToggleShop
    \/ eggSerial = 0 /\ BuyEgg("basic")
    \/ ToggleMode
    \/ ToggleFeed
    \/ \E x \in DropXs : Swimming /\ DropFlakes(x)
SpecFeed == InitAfter(0) /\ [][NextFeed]_vars

\* the same in prototype mode, with frames of 0.7 s and 4.3 s while flakes
\* are in the water
DtFlakes == IF flakes # << >> THEN {70, 430} ELSE {30000}
NextFlakes ==
    \/ \E dt \in DtFlakes : FeedFrame(dt)
    \/ ToggleShop
    \/ eggSerial = 0 /\ BuyEgg("basic")
    \/ ToggleFeed
    \/ \E x \in DropXs : Swimming /\ DropFlakes(x)
SpecFlakes == InitAfter(0) /\ [][NextFlakes]_vars

\* loop: the growth pass computes the scale of the sampled fish
GrowthOthers ==
    UNCHANGED << mode, worldW, t, frames, rebuilds, coins, shopOpen, shopTab,
                 eggs, decors, hatchFish, fishIdCounter, sellList, lastSellSig,
                 cards, eggSerial, fishEver, eggLog, fishLog, schoolVars,
                 feedVars, dragState, buyLog >>
GrowthFirst ==
    /\ growth.s = NULL
    /\ growth' = [growth EXCEPT !.s = GrowthScale(growth.age, growth.growDur)]
    /\ GrowthOthers
\* a later frame: the fish is older
GrowthLater(k) ==
    /\ growth.s # NULL
    /\ SampleAge(growth.growDur, k) > growth.age
    /\ growth' = [growth EXCEPT !.age = SampleAge(growth.growDur, k),
                                !.s = GrowthScale(SampleAge(growth.growDur, k),
                                                  growth.growDur)]
    /\ GrowthOthers
NextGrowth ==
    \/ GrowthFirst
    \/ \E k \in 0..GrowSamples : GrowthLater(k)
SpecGrowth == InitGrowth /\ [][NextGrowth]_vars

\* a shoal that shares one school
NextShoal ==
    \/ \E dt \in ShoalDt : ShoalFrame(dt)
    \/ \E w \in Widths : ShoalResize(w)
SpecShoal == InitShoal /\ [][NextShoal]_vars

(***************************************************************************)
(* Properties                                                              *)
(***************************************************************************)
EggUids(es) == {es[i].uid : i \in 1..Len(es)}
\* the eggs whose hatch callback ran in the step
HatchedNow == {u \in DOMAIN eggLog : eggLog'[u].calls > eggLog[u].calls}

\* C1: for every egg the hatch callback runs at most once, over frames of
\* any length, mode toggles and resizes: the call count never exceeds one,
\* the callback has run exactly when the egg's didHatch flag is set, a set
\* flag is never cleared, and no egg still in the tank carries a set flag.
C1_HatchAtMostOnce ==
    [][ /\ \A u \in DOMAIN eggLog' :
              /\ eggLog'[u].calls <= 1
              /\ (eggLog'[u].calls = 1) = eggLog'[u].didHatch
              /\ u \in DOMAIN eggLog =>
                    /\ eggLog'[u].calls >= eggLog[u].calls
                    /\ eggLog[u].didHatch => eggLog'[u].didHatch
        /\ \A i \in 1..Len(eggs') :
              /\ ~eggs'[i].didHatch
              /\ eggLog'[eggs'[i].uid].calls = 0 ]_vars

\* an egg has hatched, a second egg has landed and is incubating, the scene
\* has been rebuilt and a frame has run after the hatch
C1_Witness ==
    /\ rebuilds >= 1
    /\ \E u \in DOMAIN eggLog : eggLog[u].calls = 1 /\ eggLog[u].didHatch
    /\ \E i \in 1..Len(eggs) : eggs[i].landed /\ eggs[i].age > 0
    /\ \E i \in 1..Len(hatchFish) : t > hatchFish[i].bornAt

\* C2: every hatch adds exactly one fish record and removes that egg, and
\* nothing else adds a fish: in a step the new fish ids are as many as the
\* eggs whose callback ran, those eggs are exactly the ones that left the
\* egg list, the fish list grows by that number, and always
\* eggs purchased = live eggs + fish ever created.
C2_OneFishPerHatch ==
    [][ /\ eggSerial' = Len(eggs') + fishEver'
        /\ Cardinality(FishIds(hatchFish') \ FishIds(hatchFish))
              = Cardinality(HatchedNow)
        /\ EggUids(eggs) \ EggUids(eggs') = HatchedNow
        /\ fishEver' = fishEver + Cardinality(HatchedNow)
        /\ Len(hatchFish') <= Len(hatchFish) + Cardinality(HatchedNow)
        /\ HatchedNow # {} => Len(hatchFish') = Len(hatchFish) + Cardinality(HatchedNow) ]_vars

\* a mythical egg and another egg have both hatched into fish, one of which
\* is still in the tank
C2_Witness ==
    /\ fishEver = PriorCycles + 2
    /\ eggs = << >>
    /\ \E u \in DOMAIN eggLog : eggLog[u].calls = 1
    /\ \E i \in 1..Len(hatchFish) : hatchFish[i].eggType = "mythical"

\* C3: a sold fish is gone from the live fish list, and its id is in no
\* sell list and on no sell card, in the state the sale produces and in
\* every later state.
C3_SoldFishGone ==
    \A id \in DOMAIN fishLog :
        fishLog[id].sold =>
            /\ id \notin FishIds(hatchFish)
            /\ id \notin SellIds(sellList)
            /\ id \notin SellIds(cards)

\* one fish has been sold while a second, adult fish is still in the tank
\* and listed for sale after a later frame and a rebuild
C3_Witness ==
    /\ \E id \in DOMAIN fishLog : fishLog[id].sold
    /\ hatchFish # << >>
    /\ SellIds(sellList) = FishIds(hatchFish)
    /\ rebuilds >= 1
    /\ frames = MaxFrames

Adults(fish, now) ==
    { fish[i].id : i \in { j \in 1..Len(fish) :
                             now - fish[j].bornAt >= fish[j].growDur } }
\* the steps in which the sell list is built: a frame with the sell tab
\* open, a sale, a click on a fish
ListBuilt ==
    \/ t' # t /\ shopOpen /\ shopTab = "sell"
    \/ Len(hatchFish') < Len(hatchFish)
    \/ sellList' # sellList

\* C5: whenever the sell list is built it holds exactly the live fish with
\* now - bornAt >= growDur for the time of that build, and a listed id is
\* always a live fish of that age.
C5_SellableIffGrown ==
    [][ /\ ListBuilt => SellIds(sellList') = Adults(hatchFish', t')
        /\ SellIds(sellList') \subseteq Adults(hatchFish', t') ]_vars

\* a fish aged exactly growDur is on the list, one frame of 0.01 s after a
\* frame in which the list was built without it
C5_Witness ==
    \E i \in 1..Len(hatchFish) :
        /\ t - hatchFish[i].bornAt = hatchFish[i].growDur
        /\ hatchFish[i].id \in SellIds(sellList)
        /\ shopOpen /\ shopTab = "sell"

\* ceil(1.12 * p) for an integer price p
ExactCeil112(p) == (112 * p + 99) \div 100

\* C6: the coins credited by a sale are max(5, ceil(1.12 * egg price)) for
\* the egg type of the fish sold (5 for the free basic egg, so that 30
\* coins become 35); buying the basic egg leaves the coins as they were.
C6_SaleCredit ==
    [][ /\ coins' > coins =>
              \E i \in 1..Len(hatchFish) :
                  /\ hatchFish[i].id \notin FishIds(hatchFish')
                  /\ coins' - coins =
                        Max(5, ExactCeil112(EggPrice(hatchFish[i].eggType)))
        /\ \A i \in 1..Len(eggs') :
              eggs'[i].uid \notin EggUids(eggs) /\ eggs'[i].eggType = "basic"
                  => coins' = coins ]_vars

\* C7: fish ids come from a counter that only grows: a fish created in a
\* step gets an id from the counter's old value up to below its new value,
\* never one that was assigned before, the counter advances by the number
\* of fish created, live ids are pairwise distinct and below the counter,
\* and a rebuild on mode toggle or resize keeps every fish's id.
C7_IdsNeverReused ==
    [][ /\ fishIdCounter' =
              fishIdCounter + Cardinality(FishIds(hatchFish') \ FishIds(hatchFish))
        /\ \A id \in FishIds(hatchFish') \ FishIds(hatchFish) :
              /\ fishIdCounter <= id /\ id < fishIdCounter'
              /\ id \notin DOMAIN fishLog
        /\ Cardinality(FishIds(hatchFish')) = Len(hatchFish')
        /\ \A id \in FishIds(hatchFish') : id < fishIdCounter'
        /\ rebuilds' # rebuilds =>
              [i \in 1..Len(hatchFish') |-> hatchFish'[i].id]
                  = [i \in 1..Len(hatchFish) |-> hatchFish[i].id] ]_vars

\* a fish was sold, a fish with a later id swims in the tank, and the scene
\* has been rebuilt
C7_Witness ==
    /\ rebuilds >= 1
    /\ \E id \in DOMAIN fishLog :
          /\ fishLog[id].sold
          /\ \E i \in 1..Len(hatchFish) : hatchFish[i].id > id

InBox(x, y, b) == b.xMin <= x /\ x <= b.xMax /\ b.yMin <= y /\ y <= b.yMax

\* C8: in every state - during the hatch lift and right after a resize or
\* a mode toggle included - every egg, every decoration and every fish is
\* inside the bounds computed for it from the current tank dimensions and
\* its half extents.
C8_BoundsContainment ==
    /\ \A i \in 1..Len(eggs) : InBox(eggs[i].x, eggs[i].y, EggEnv(worldW))
    /\ \A i \in 1..Len(decors) :
          InBox(decors[i].x, decors[i].y, DecorEnv(worldW))
    /\ \A i \in 1..Len(hatchFish) :
          InBox(hatchFish[i].x, hatchFish[i].y,
                FishBounds(hatchFish[i].cls, worldW,
                           hatchFish[i].hw, hatchFish[i].hh))

\* C9: a mode toggle leaves every fish with the logical position and phase
\* it had before, with the same swim direction where the old and the new
\* class both keep one, and with the same velocity where both keep one.
C9_SnapshotRoundTrip ==
    [][ mode' # mode =>
          \A i \in 1..Len(hatchFish) :
              /\ hatchFish'[i].x = hatchFish[i].x
              /\ hatchFish'[i].y = hatchFish[i].y
              /\ hatchFish'[i].phase = hatchFish[i].phase
              /\ HasDir(hatchFish[i].cls) /\ HasDir(hatchFish'[i].cls) =>
                    hatchFish'[i].dir = hatchFish[i].dir
              /\ HasV(hatchFish[i].cls) /\ HasV(hatchFish'[i].cls) =>
                    /\ hatchFish'[i].vx = hatchFish[i].vx
                    /\ hatchFish'[i].vy = hatchFish[i].vy ]_vars

\* C10: a mode toggle or resize changes no lifecycle state: the clock, each
\* fish's bornAt, growDur, liftStart, liftDone and settleUntil, each egg's
\* age, hatchAt, landed and didHatch, the hatch history, the sell list and
\* the set of fish old enough to sell are the same after as before.
C10_RebuildKeepsLifecycle ==
    [][ rebuilds' # rebuilds =>
          /\ t' = t /\ eggLog' = eggLog /\ fishLog' = fishLog
          /\ Len(hatchFish') = Len(hatchFish) /\ Len(eggs') = Len(eggs)
          /\ \A i \in 1..Len(hatchFish) :
                /\ hatchFish'[i].id = hatchFish[i].id
                /\ hatchFish'[i].bornAt = hatchFish[i].bornAt
                /\ hatchFish'[i].growDur = hatchFish[i].growDur
                /\ hatchFish'[i].liftStart = hatchFish[i].liftStart
                /\ hatchFish'[i].liftDone = hatchFish[i].liftDone
                /\ hatchFish'[i].settleUntil = hatchFish[i].settleUntil
          /\ \A i \in 1..Len(eggs) :
                /\ eggs'[i].uid = eggs[i].uid
                /\ eggs'[i].age = eggs[i].age
                /\ eggs'[i].hatchAt = eggs[i].hatchAt
                /\ eggs'[i].landed = eggs[i].landed
                /\ eggs'[i].didHatch = eggs[i].didHatch
          /\ sellList' = sellList
          /\ Adults(hatchFish', t') = Adults(hatchFish, t) ]_vars

\* full mode has been switched on while an egg that has landed is incubating
\* and a fish is in the middle of its hatch lift
C10_Witness ==
    /\ mode = MODE_FULL /\ rebuilds >= 1
    /\ \E i \in 1..Len(eggs) : eggs[i].landed /\ eggs[i].age > 0
    /\ \E i \in 1..Len(hatchFish) :
          /\ hatchFish[i].liftStart # NULL
          /\ ~hatchFish[i].liftDone

\* C11: after any toggles and resizes the scale applied to a fish whose
\* shape is built is the base scale its class constructs (1.0 for a
\* PrimitiveFish) times lerp(0.14, 1.0, smoothstep(age / growDur)), so that
\* it is the full base scale from age growDur on.
C11_GrowthPreserved ==
    \A i \in 1..Len(hatchFish) :
        hatchFish[i].rootScale # NULL =>
            hatchFish[i].rootScale =
                Frac(1000, Lerp(StartF, EndF, Eased(hatchFish[i], t)), 1000)

\* C12: under frames of a fixed step the hatch callback of an egg runs at
\* most once and runs in the frame in which the egg's cumulative age first
\* reaches hatchAt, so no egg left in the tank has an age of hatchAt or more.
C12_HatchTiming ==
    /\ \A u \in DOMAIN eggLog : eggLog[u].calls <= 1
    /\ \A i \in 1..Len(eggs) : eggs[i].age < eggs[i].hatchAt

\* C13: one frame of a shoal of N >= 2 members advances the shared leader
\* once: the tick count rises by one and the retarget timer falls by no
\* more than the frame's dt.
C13_LeaderTickedOnce ==
    [][ frames' # frames /\ Len(shoal) >= 2 =>
          /\ school'.ticks = school.ticks + 1
          /\ school.needsRespawn \/ school.timer - school'.timer <= t' - t ]_vars

\* C14: any two changes of a patrol fish's swim direction, seen from one
\* frame's end to the next, are at least its turn cooldown apart, whether
\* the feed is on or off.
C14_FlipDebounce ==
    \A id \in DOMAIN turnLog :
        turnLog[id].gap = NULL \/ turnLog[id].gap >= turnLog[id].cd

\* C15: a decoration is dragged only after it has landed: a pointer-down
\* on a decoration that is still falling neither starts a drag nor marks it
\* landed, and landed becomes true only on the sand landing line.
C15_DragOnlyAfterLanding ==
    [][ \A i \in 1..Len(decors) :
          ~decors[i].landed =>
              /\ ~decors'[i].dragging
              /\ decors'[i].landed =>
                   decors'[i].y = SandTopY + Frac(DecorHalfH, 15, 100) ]_vars

\* C16: a decoration that is landed or dragged has its x inside
\* [xMin, xMax] and its y no higher than the sand landing line.
C16_LandedOnSand ==
    \A i \in 1..Len(decors) :
        decors[i].landed \/ decors[i].dragging =>
            /\ decors[i].x >= DecorEnv(worldW).xMin
            /\ decors[i].x <= DecorEnv(worldW).xMax
            /\ decors[i].y <= SandTopY + Frac(DecorHalfH, 15, 100)

\* C19: a flake's phase only moves forward, one step at a time, through
\* falling, floating, sinking; a flake leaves the list exactly when its
\* lifetime has run out, a fish has eaten it, or it has sunk to the sand
\* floor; the fish that try to eat in a frame remove at most one flake each;
\* the nearest-flake query never returns a flake that has left the list.
FlakeRank(f) == CASE f.state = "drop" -> 1 [] f.state = "float" -> 2 [] OTHER -> 3
FlakeIds(fl) == { fl[i].id : i \in 1..Len(fl) }
FlakeOf(fl, id) == fl[CHOOSE i \in 1..Len(fl) : fl[i].id = id]
FlakeFloor == SandTopY + 30000
C19_ListAndLog ==
    /\ FlakeIds(flakes) \cup DOMAIN flakeLog = 1..(flakeId - 1)
    /\ FlakeIds(flakes) \cap DOMAIN flakeLog = {}
    /\ Cardinality(FlakeIds(flakes)) = Len(flakes)
    /\ \A i \in 1..Len(flakes) :
          /\ flakes[i].life > 0
          /\ flakes[i].state = "sink" => flakes[i].y > FlakeFloor
    /\ \A id \in DOMAIN flakeLog :
          \/ flakeLog[id].why = "life" /\ flakeLog[id].life <= 0
          \/ flakeLog[id].why = "eaten" /\ flakeLog[id].life > 0
          \/ /\ flakeLog[id].why = "floor" /\ flakeLog[id].life > 0
             /\ flakeLog[id].state = "sink" /\ flakeLog[id].y <= FlakeFloor
    /\ \A i \in 1..Len(hatchFish) :
          getNearestFlake(flakes, hatchFish[i].gx, hatchFish[i].gy) # 0 =>
              flakes[getNearestFlake(flakes, hatchFish[i].gx, hatchFish[i].gy)].id
                  \notin DOMAIN flakeLog
C19_PhaseSteps ==
    /\ \A id \in FlakeIds(flakes) \cap FlakeIds(flakes') :
          /\ FlakeRank(FlakeOf(flakes', id)) >= FlakeRank(FlakeOf(flakes, id))
          /\ FlakeRank(FlakeOf(flakes', id)) <= FlakeRank(FlakeOf(flakes, id)) + 1
    /\ Cardinality({ id \in DOMAIN flakeLog' :
                       id \notin DOMAIN flakeLog /\ flakeLog'[id].why = "eaten" })
          <= Cardinality({ i \in 1..Len(hatchFish) : ~FishSkips(hatchFish[i], t') })
    /\ DOMAIN flakeLog \subseteq DOMAIN flakeLog'
C19_FlakeLifecycle == [](C19_ListAndLog) /\ [][C19_PhaseSteps]_vars
\* a flake has been eaten and another has sunk to the floor
C19_Witness ==
    /\ \E id \in DOMAIN flakeLog : flakeLog[id].why = "eaten"
    /\ \E id \in DOMAIN flakeLog : flakeLog[id].why = "floor"

\* C17: at the end of every frame, from the one that spawns a fish through
\* its hatch lift and afterwards, the fish's y is at most its ceiling yMax,
\* the ceiling is not above the aquarium's innerTop, and the rendered group
\* is not above innerTop either, for every kind of fish.
FishCeiling(f, w) == FishBounds(f.cls, w, f.hw, f.hh).yMax
C18_ScaleInRange ==
    growth.s # NULL =>
        /\ growth.s >= StartF /\ growth.s <= EndF
        /\ growth.age = 0 => growth.s = StartF
        /\ growth.age >= growth.growDur => growth.s = EndF
C18_ScaleRises ==
    growth.s # NULL /\ growth'.age >= growth.age => growth'.s >= growth.s
C18_GrowthMonotone == [](C18_ScaleInRange) /\ [][C18_ScaleRises]_vars
\* a fish with growDur = 10 s sampled at 15 s after a younger sample
C18_Witness ==
    growth.growDur = 1000 /\ growth.age = 1500 /\ growth.s = EndF

\* one record more at the end of a list, the others as they were
GrewByOne(before, after) ==
    /\ Len(after) = Len(before) + 1
    /\ SubSeq(after, 1, Len(before)) = before
\* the coin balance is a natural number
C20_CoinsNat == coins \in Nat
\* a click answered "nope" had a cost above the coins and changed neither
\* the coins nor the eggs nor the decorations, and emitted no buy event
C20_RefusedStep ==
    buyLog'.nopes # buyLog.nopes =>
        /\ buyLog'.cost > coins
        /\ coins' = coins /\ eggs' = eggs /\ decors' = decors
        /\ buyLog'.buys = buyLog.buys
\* a buy event follows a click whose cost the coins cover; the coins fall
\* by exactly the cost and exactly one egg or one decoration is spawned
C20_PaidStep ==
    buyLog'.buys # buyLog.buys =>
        /\ buyLog'.buys = buyLog.buys + 1
        /\ buyLog'.cost <= coins
        /\ coins' = coins - buyLog'.cost
        /\ \/ GrewByOne(eggs, eggs') /\ decors' = decors
           \/ GrewByOne(decors, decors') /\ eggs' = eggs
\* eggs and decorations appear, and coins are spent, only with a buy event
C20_OnlyByBuying ==
    Len(eggs') > Len(eggs) \/ Len(decors') > Len(decors) \/ coins' < coins
        => buyLog'.buys = buyLog.buys + 1
\* C20: a purchase whose price exceeds the coins changes nothing (coins,
\* eggs and decorations unchanged, no buy event); a purchase the coins cover
\* lowers them by exactly the price and spawns exactly one egg or one
\* decoration; the coin balance is a non-negative integer in every state.
C20_PurchaseAccounting ==
    /\ [](C20_CoinsNat)
    /\ [][C20_RefusedStep /\ C20_PaidStep /\ C20_OnlyByBuying]_vars
\* an egg and a decoration were bought, the decoration for coins, and a
\* click was answered "nope"
C20_Witness ==
    /\ buyLog.nopes >= 1 /\ buyLog.buys >= 2
    /\ eggSerial >= 1 /\ Len(decors) = 1
    /\ coins < StartCoins

\* the record of fish id in a list of fish records, and whether it has one
C21_Has(fs, id) == \E i \in 1..Len(fs) : fs[i].id = id
C21_Rec(fs, id) == fs[CHOOSE i \in 1..Len(fs) : fs[i].id = id]
\* a fish that is lifting or settling has never had its motion update
\* called and is at its hatch x
C21_StillAtHatchX ==
    \A i \in 1..Len(hatchFish) :
        FishSkips(hatchFish[i], t) =>
            /\ fishLog[hatchFish[i].id].movedAt = NULL
            /\ hatchFish[i].x = hatchFish[i].baseX
            /\ hatchFish[i].gx = hatchFish[i].baseX
\* a frame leaves a lifting or settling fish unmoved and unattracted, and
\* calls the motion update of every other fish
C21_FrameOf(f, g) ==
    IF FishSkips(f, t')
    THEN /\ fishLog'[g.id].movedAt = NULL
         /\ g.x = f.baseX /\ g.gx = f.baseX
         /\ g.vx = f.vx /\ g.dir = f.dir
         /\ g.vy \in {f.vy, Min(0, f.vy)}
    ELSE fishLog'[g.id].movedAt = t'
C21_FrameStep ==
    frames' # frames =>
        \A j \in 1..Len(hatchFish') :
            IF C21_Has(hatchFish, hatchFish'[j].id)
            THEN C21_FrameOf(C21_Rec(hatchFish, hatchFish'[j].id), hatchFish'[j])
            ELSE /\ fishLog'[hatchFish'[j].id].movedAt = NULL
                 /\ hatchFish'[j].x = hatchFish'[j].baseX
\* liftDone never goes back to false; the step that sets it makes the
\* lifted y the base y and opens the settle window
C21_LiftOnce ==
    \A j \in 1..Len(hatchFish') :
        C21_Has(hatchFish, hatchFish'[j].id) =>
            LET f == C21_Rec(hatchFish, hatchFish'[j].id)
                g == hatchFish'[j]
            IN  /\ f.liftDone => g.liftDone /\ g.settleUntil = f.settleUntil
                /\ ~f.liftDone /\ g.liftDone =>
                       /\ frames' # frames
                       /\ g.baseY = g.y /\ g.y = g.gy
                       /\ g.settleUntil = t' + SettleExtra
\* C21: from its creation until its lift is done and the settle window
\* has passed, a fish's motion update is never called and feed attraction
\* never alters it, and its x stays at the hatch x; liftDone goes from
\* false to true once, the final lifted y becomes the base y, and from the
\* first frame at or after settleUntil the motion update runs every frame.
C21_LiftOwnsPosition ==
    /\ [](C21_StillAtHatchX)
    /\ [][C21_FrameStep /\ C21_LiftOnce]_vars

\* C22: the shared school record has a single writer: its leader position
\* and velocity, its target, its retarget timer and its respawn flag change
\* only in a step in which the coordinator tick runs; member operations
\* and the loop's feed logic only read them.
C22_SingleWriter ==
    [][ school'.ticks = school.ticks =>
          /\ school'.x = school.x /\ school'.y = school.y
          /\ school'.vx = school.vx /\ school'.vy = school.vy
          /\ school'.tx = school.tx /\ school'.ty = school.ty
          /\ school'.timer = school.timer
          /\ school'.needsRespawn = school.needsRespawn ]_vars

\* the step moves decoration i by a dragTo of the pointer handler
C23_IsDragTo(i) ==
    /\ dragState.decor = i
    /\ \E x \in DragXs, y \in DragYs :
          decors'[i] = dragTo(decors[i], x, y, worldW)
\* a frame changes nothing of a dragging decoration
C23_FrameFrozen ==
    frames' # frames =>
        \A i \in 1..Len(decors) : decors[i].dragging => decors'[i] = decors[i]
\* the position of a dragging decoration changes only by dragTo
C23_OnlyDragTo ==
    \A i \in 1..Len(decors) :
        decors[i].dragging
          /\ (decors'[i].x # decors[i].x \/ decors'[i].y # decors[i].y)
        => C23_IsDragTo(i)
\* endDrag leaves the decoration landed where it was dropped, at rest
C23_Dropped ==
    \A i \in 1..Len(decors) :
        decors[i].dragging /\ ~decors'[i].dragging =>
            /\ decors'[i].landed
            /\ decors'[i].vx = 0 /\ decors'[i].vy = 0
            /\ decors'[i].x = decors[i].x /\ decors'[i].y = decors[i].y
\* a landed decoration stays landed, and frames no longer move it
C23_StaysLanded ==
    \A i \in 1..Len(decors) :
        decors[i].landed =>
            /\ decors'[i].landed
            /\ frames' # frames =>
                  decors'[i].x = decors[i].x /\ decors'[i].y = decors[i].y
\* C23: while a decoration is dragging, physics is suspended: frames change
\* neither its position nor its velocity nor its landed flag, only dragTo
\* changes its position, and endDrag leaves it landed at the dropped
\* position with zero velocity, never to fall again.
C23_DragSuspendsPhysics ==
    [][ /\ C23_FrameFrozen /\ C23_OnlyDragTo
        /\ C23_Dropped /\ C23_StaysLanded ]_vars

\* the swim band of a fish record in a tank of width w
C24_Band(f, w) == FishBounds(f.cls, w, f.hw, f.hh)
\* C24: for every fish kind that bobs (every kind but the primitive
\* placeholder), after every motion update the rendered y, the logical y
\* plus the bob offset, lies within the fish's band [yMin, yMax].
C24_BobInBand ==
    [][ frames' # frames =>
          \A j \in 1..Len(hatchFish') :
              /\ hatchFish'[j].cls # "prim"
              /\ fishLog'[hatchFish'[j].id].movedAt = t'
              => /\ hatchFish'[j].gy >= C24_Band(hatchFish'[j], worldW').yMin
                 /\ hatchFish'[j].gy <= C24_Band(hatchFish'[j], worldW').yMax ]_vars
\* C25: after every recomputation of a fish's bounds (constructor,
\* setBounds, the correction when its model has loaded) the vertical band
\* of every fish in the tank is ordered, yMin <= yMax, whatever the fish
\* kind, the tank width and the measured half extents
C25_BandOf(f) == FishBounds(f.cls, worldW, f.hw, f.hh)
C25_BandOrdered ==
    \A i \in 1..Len(hatchFish) :
        C25_BandOf(hatchFish[i]).yMin <= C25_BandOf(hatchFish[i]).yMax

\* C27: when the model of a fish finishes loading and the fish's group is
\* no longer at the origin, the group's position is authoritative: the
\* logical position becomes the group's position (clamped into the new
\* band), and the group stays where it was or moves to that clamped point;
\* it is never overwritten from the logical position.  For every fish kind.
C27_LoadedNow(i) ==
    /\ Len(hatchFish') = Len(hatchFish)
    /\ hatchFish'[i].id = hatchFish[i].id
    /\ hatchFish'[i].cls = hatchFish[i].cls
    /\ hatchFish[i].rootScale = NULL
    /\ hatchFish'[i].rootScale # NULL
C27_Placed(i) == hatchFish[i].gx # 0 \/ hatchFish[i].gy # 0
C27_Merged(f, g, b) ==
    /\ g.x = Clamp(f.gx, b.xMin, b.xMax)
    /\ g.y = Clamp(f.gy, b.yMin, b.yMax)
    /\ g.gx \in {f.gx, g.x}
    /\ g.gy \in {f.gy, g.y}
C27_ConditionalMerge ==
    [][ \A i \in 1..Len(hatchFish) :
          C27_LoadedNow(i) /\ C27_Placed(i) =>
              C27_Merged(hatchFish[i], hatchFish'[i],
                         FishBounds(hatchFish'[i].cls, worldW',
                                    hatchFish'[i].hw, hatchFish'[i].hh)) ]_vars

\* C26: the order of the passes within one frame.  The egg pass comes
\* before the fish passes: a fish hatched in this frame is not moved by the
\* motion pass, and growth and lift act on it in this same frame (its lift
\* starts now, a loaded root gets its starting scale).  Growth and lift
\* come before the sell list: with the shop on the sell tab a fish whose
\* age reaches growDur in this frame is in the list rebuilt in this frame,
\* with its root already at the adult scale.
C26_BornNow(g) ==
    /\ g.bornAt = t'
    /\ g.liftStart = t'
    /\ g.rootScale # NULL => g.rootScale = Frac(g.adultRootScale, StartF, 1000)
    /\ fishLog'[g.id].movedAt = NULL
C26_AdultNow(g) ==
    /\ g.id \in SellIds(sellList')
    /\ g.rootScale # NULL => g.rootScale = Frac(g.adultRootScale, EndF, 1000)
C26_FrameOrder ==
    [][ t' # t =>
          \A i \in 1..Len(hatchFish') :
              /\ hatchFish'[i].id \notin FishIds(hatchFish)
                    => C26_BornNow(hatchFish'[i])
              /\ ( /\ shopOpen /\ shopTab = "sell"
                   /\ t - hatchFish'[i].bornAt < hatchFish'[i].growDur
                   /\ t' - hatchFish'[i].bornAt >= hatchFish'[i].growDur )
                    => C26_AdultNow(hatchFish'[i]) ]_vars
\* the sell tab lists a fish at its adult scale whose age passed growDur
\* less than the shortest frame ago: it became sellable in the last frame
C26_Witness ==
    \E i \in 1..Len(hatchFish) :
        /\ t - hatchFish[i].bornAt >= hatchFish[i].growDur
        /\ t - hatchFish[i].bornAt - hatchFish[i].growDur < 999
        /\ hatchFish[i].id \in SellIds(sellList)
        /\ hatchFish[i].rootScale = hatchFish[i].adultRootScale
        /\ hatchFish[i].liftStart # NULL
        /\ shopOpen /\ shopTab = "sell"

\* C28: in every frame every egg that is in the egg list when the frame
\* starts has its update called exactly once: an egg that is still in the
\* list after the frame is what one call of update made of it, also when
\* another egg hatched and left the list during the same pass.
C28_UpdatedOnce(e, f) == f = EggStep(e, t' - t, t', worldW)
C28_EveryEggOnce ==
    [][ t' # t =>
          \A i \in 1..Len(eggs) : \A j \in 1..Len(eggs') :
              eggs'[j].uid = eggs[i].uid => C28_UpdatedOnce(eggs[i], eggs'[j]) ]_vars

\* C29: under any interleaving of pointer down, move, up and cancel events
\* of one or more pointers at most one decoration is dragging at a time, a
\* decoration is dragging only while the drag record refers to it, and
\* when a release or cancel clears the drag record no decoration is left
\* dragging.
C29_Dragging == { i \in 1..Len(decors) : decors[i].dragging }
C29_AtMostOne == Cardinality(C29_Dragging) <= 1
C29_OnlyReferred == \A i \in C29_Dragging : dragState.decor = i
C29_Released ==
    dragState' = NoDrag =>
        \A i \in 1..Len(decors') : ~decors'[i].dragging
C29_OneDragAtATime ==
    [](C29_AtMostOne /\ C29_OnlyReferred) /\ [][C29_Released]_vars

\* C30: progress while frames keep ticking.  Every purchased egg lands and
\* then hatches; every hatched fish finishes its lift and its settle window
\* and becomes sellable (or is sold); a sellable fish stays sellable, and is
\* in every sell list rebuilt, until it is sold.  Mode toggles and resizes
\* neither stall these steps nor make a fish unsellable.
C30_Ids == (PriorCycles + 1)..(PriorCycles + MaxEggs)
C30_Landed(u) ==
    \/ \E i \in 1..Len(eggs) : eggs[i].uid = u /\ eggs[i].landed
    \/ u \in DOMAIN eggLog /\ eggLog[u].didHatch
C30_Hatched(u) == u \in DOMAIN eggLog /\ eggLog[u].didHatch
C30_Sold(id) == id \in DOMAIN fishLog /\ fishLog[id].sold
C30_Settled(id) ==
    \E i \in 1..Len(hatchFish) :
        /\ hatchFish[i].id = id
        /\ hatchFish[i].liftDone
        /\ hatchFish[i].settleUntil # NULL /\ hatchFish[i].settleUntil <= t
\* an egg hatches only once it has landed
C30_LandsFirst ==
    \A u \in C30_Ids : C30_Hatched(u)' /\ ~C30_Hatched(u) => C30_Landed(u)
C30_EggProgress ==
    \A u \in C30_Ids : (u \in DOMAIN eggLog) ~> C30_Hatched(u)
C30_FishProgress ==
    \A id \in C30_Ids :
        (id \in FishIds(hatchFish))
          ~> ( \/ C30_Settled(id) /\ id \in Adults(hatchFish, t)
               \/ C30_Sold(id) )
C30_StaysSellable ==
    \A id \in Adults(hatchFish, t) \cap FishIds(hatchFish') :
        /\ id \in Adults(hatchFish', t')
        /\ ListBuilt => id \in SellIds(sellList')
C30_Progress ==
    /\ C30_EggProgress /\ C30_FishProgress
    /\ [][C30_LandsFirst /\ C30_StaysSellable]_vars
\* after a mode toggle or a resize a hatched fish has finished its lift, is
\* of age and stands in the sell list
C30_Witness ==
    /\ rebuilds > 0
    /\ shopOpen /\ shopTab = "sell"
    /\ \E id \in C30_Ids :
          /\ C30_Hatched(id)
          /\ C30_Settled(id)
          /\ id \in Adults(hatchFish, t)
          /\ id \in SellIds(sellList)

====
